---- MODULE Spec2Model ----
(***************************************************************************)
(* Model of the mock API server (src/mocker/mocker/src/mocker): the list   *)
(* endpoints of the users and tasks routers, the helpers of utils.py they  *)
(* share (paginate_query, build_order_by, create_paginated_response), the  *)
(* handlers that read or write one record or several, the server with the  *)
(* requests of several clients in flight, the routes of the tasks router   *)
(* in the order of their declaration, and init_database of seed.py.        *)
(*                                                                         *)
(* Text is a sequence of one-character strings, so that lower-casing,      *)
(* LIKE matching and lexicographic comparison are computed, not assumed.   *)
(* JSON / Python values of the untyped request dict are tagged records     *)
(* [t |-> type, v |-> value].  The store is SQLite (database.py:15).       *)
(***************************************************************************)
EXTENDS Integers, Sequences, FiniteSets, TLC

VARIABLES
    users,      \* rows of table "users", in rowid order
    tasks,      \* rows of table "tasks", in rowid order
    req,        \* the request being served (its operation and its inputs)
    resp,       \* the HTTP response of the last request
    loc,        \* locals of the last handler run at its exit
    args,       \* arguments of a direct call of paginate_query
    ret         \* what that call returned

vars == <<users, tasks, req, resp, loc, args, ret>>

----------------------------------------------------------------------------
(* Bounds of the model *)

\* the database holds at most MaxRows rows (users and tasks together)
MaxRows == 3
\* direct calls of paginate_query: short sequences have 0..MaxLen records
MaxLen == 3
\* direct calls of paginate_query: page numbers -1..MaxPage
MaxPage == 3

\* utils.py:107, the default of max_page_size
MAX_PAGE_SIZE == 100
\* users.py:41 and tasks.py:38, the default page size
DEFAULT_PAGE_SIZE == 10

----------------------------------------------------------------------------
(* Python / JSON values *)

Absent == [t |-> "absent", v |-> <<>>]   \* key not in the request dict
Null   == [t |-> "null",   v |-> <<>>]   \* JSON null, Python None
PyStr(s)  == [t |-> "str",  v |-> s]
PyInt(n)  == [t |-> "int",  v |-> <<n>>]
PyList(l) == [t |-> "list", v |-> l]

IntOf(x) == x.v[1]

\* dict.get(key): None when the key is absent
Get(x) == IF x.t = "absent" THEN Null ELSE x
\* dict.get(key, default)
GetDefault(x, d) == IF x.t = "absent" THEN d ELSE x

\* Python truthiness of a request value
Truthy(x) ==
    CASE x.t = "null" -> FALSE
      [] x.t = "absent" -> FALSE
      [] x.t = "int" -> IntOf(x) /= 0
      [] x.t = "bool" -> x.v[1]
      [] OTHER -> x.v /= <<>>

IsStr(x) == x.t = "str"

----------------------------------------------------------------------------
(* Text *)

UpperChars == <<"A","B","C","D","E","F","G","H","I","J","K","L","M",
                "N","O","P","Q","R","S","T","U","V","W","X","Y","Z">>
LowerChars == <<"a","b","c","d","e","f","g","h","i","j","k","l","m",
                "n","o","p","q","r","s","t","u","v","w","x","y","z">>

\* the characters the model uses, in ASCII order
Ascii == <<" ", "%", ".", "1", "2", "3", "@">> \o UpperChars \o <<"_">> \o LowerChars

Ord(c) == CHOOSE i \in 1..Len(Ascii) : Ascii[i] = c

LowerCh(c) ==
    IF \E i \in 1..Len(UpperChars) : UpperChars[i] = c
    THEN LowerChars[CHOOSE i \in 1..Len(UpperChars) : UpperChars[i] = c]
    ELSE c

\* str.lower() and SQL lower()
Lower(s) == [i \in 1..Len(s) |-> LowerCh(s[i])]

\* str.strip(): leading and trailing blanks removed
RECURSIVE LStrip(_)
LStrip(s) == IF s /= <<>> /\ Head(s) = " " THEN LStrip(Tail(s)) ELSE s
RECURSIVE RStrip(_)
RStrip(s) ==
    IF s /= <<>> /\ s[Len(s)] = " " THEN RStrip(SubSeq(s, 1, Len(s) - 1)) ELSE s
Strip(s) == RStrip(LStrip(s))

\* lexicographic comparison of text by character code (SQLite BINARY collation)
RECURSIVE TextLess(_, _)
TextLess(a, b) ==
    IF b = <<>> THEN FALSE
    ELSE IF a = <<>> THEN TRUE
    ELSE IF Head(a) = Head(b) THEN TextLess(Tail(a), Tail(b))
    ELSE Ord(Head(a)) < Ord(Head(b))

\* t occurs in s as a contiguous substring
Contains(s, t) ==
    \E i \in 1..(Len(s) - Len(t) + 1) : SubSeq(s, i, i + Len(t) - 1) = t

\* SQL LIKE without ESCAPE: % matches any run of characters, _ any one character
RECURSIVE Like(_, _)
Like(txt, pat) ==
    IF pat = <<>> THEN txt = <<>>
    ELSE IF Head(pat) = "%"
         THEN Like(txt, Tail(pat)) \/ (txt /= <<>> /\ Like(Tail(txt), pat))
    ELSE IF txt = <<>> THEN FALSE
    ELSE IF Head(pat) = "_" THEN Like(Tail(txt), Tail(pat))
    ELSE Head(pat) = Head(txt) /\ Like(Tail(txt), Tail(pat))

\* column.ilike(pattern): lower(column) LIKE lower(pattern); NULL never matches
ilike(col, pat) == col /= <<"NULL">> /\ Like(Lower(col), Lower(pat))

\* f"%{search}%"
SearchPattern(search) == <<"%">> \o search \o <<"%">>

----------------------------------------------------------------------------
(* Enumerations of schemas.py: each member has a name and a value *)

T_active    == <<"a","c","t","i","v","e">>
T_inactive  == <<"i","n","a","c","t","i","v","e">>
T_invited   == <<"i","n","v","i","t","e","d">>
T_suspended == <<"s","u","s","p","e","n","d","e","d">>
T_ACTIVE    == <<"A","C","T","I","V","E">>
T_INACTIVE  == <<"I","N","A","C","T","I","V","E">>
T_INVITED   == <<"I","N","V","I","T","E","D">>
T_SUSPENDED == <<"S","U","S","P","E","N","D","E","D">>

UserStatus ==
    { [name |-> T_ACTIVE,    value |-> T_active],
      [name |-> T_INACTIVE,  value |-> T_inactive],
      [name |-> T_INVITED,   value |-> T_invited],
      [name |-> T_SUSPENDED, value |-> T_suspended] }

T_superadmin == <<"s","u","p","e","r","a","d","m","i","n">>
T_admin      == <<"a","d","m","i","n">>
T_manager    == <<"m","a","n","a","g","e","r">>
T_cashier    == <<"c","a","s","h","i","e","r">>
T_SUPERADMIN == <<"S","U","P","E","R","A","D","M","I","N">>
T_ADMIN      == <<"A","D","M","I","N">>
T_MANAGER    == <<"M","A","N","A","G","E","R">>
T_CASHIER    == <<"C","A","S","H","I","E","R">>

UserRole ==
    { [name |-> T_SUPERADMIN, value |-> T_superadmin],
      [name |-> T_ADMIN,      value |-> T_admin],
      [name |-> T_MANAGER,    value |-> T_manager],
      [name |-> T_CASHIER,    value |-> T_cashier] }

T_backlog     == <<"b","a","c","k","l","o","g">>
T_todo        == <<"t","o","d","o">>
T_in_progress == <<"i","n"," ","p","r","o","g","r","e","s","s">>
T_done        == <<"d","o","n","e">>
T_canceled    == <<"c","a","n","c","e","l","e","d">>
T_BACKLOG     == <<"B","A","C","K","L","O","G">>
T_TODO        == <<"T","O","D","O">>
T_IN_PROGRESS == <<"I","N","_","P","R","O","G","R","E","S","S">>
T_DONE        == <<"D","O","N","E">>
T_CANCELED    == <<"C","A","N","C","E","L","E","D">>

TaskStatus ==
    { [name |-> T_BACKLOG,     value |-> T_backlog],
      [name |-> T_TODO,        value |-> T_todo],
      [name |-> T_IN_PROGRESS, value |-> T_in_progress],
      [name |-> T_DONE,        value |-> T_done],
      [name |-> T_CANCELED,    value |-> T_canceled] }

T_bug           == <<"b","u","g">>
T_feature       == <<"f","e","a","t","u","r","e">>
T_documentation == <<"d","o","c","u","m","e","n","t","a","t","i","o","n">>
T_BUG           == <<"B","U","G">>
T_FEATURE       == <<"F","E","A","T","U","R","E">>
T_DOCUMENTATION == <<"D","O","C","U","M","E","N","T","A","T","I","O","N">>

TaskLabel ==
    { [name |-> T_BUG,           value |-> T_bug],
      [name |-> T_FEATURE,       value |-> T_feature],
      [name |-> T_DOCUMENTATION, value |-> T_documentation] }

T_low      == <<"l","o","w">>
T_medium   == <<"m","e","d","i","u","m">>
T_high     == <<"h","i","g","h">>
T_critical == <<"c","r","i","t","i","c","a","l">>
T_LOW      == <<"L","O","W">>
T_MEDIUM   == <<"M","E","D","I","U","M">>
T_HIGH     == <<"H","I","G","H">>
T_CRITICAL == <<"C","R","I","T","I","C","A","L">>

TaskPriority ==
    { [name |-> T_LOW,      value |-> T_low],
      [name |-> T_MEDIUM,   value |-> T_medium],
      [name |-> T_HIGH,     value |-> T_high],
      [name |-> T_CRITICAL, value |-> T_critical] }

\* The value a Column(Enum(cls)) comparison binds for elem.  The column
\* persists member NAMES; a member, a string equal to a member's value (the
\* classes are str enums, so such a string is the same dict key as the
\* member) and a string equal to a member's name all bind that member's
\* name; any other string is bound as it is.
EnumBind(cls, elem) ==
    IF \E m \in cls : m.value = elem
    THEN (CHOOSE m \in cls : m.value = elem).name
    ELSE elem

\* what the column stores for a row whose attribute is the member with value v
EnumStored(cls, v) == EnumBind(cls, v)

\* Column(Enum(cls)) == elem
EnumEq(cls, field, elem) == EnumStored(cls, field) = EnumBind(cls, elem)

----------------------------------------------------------------------------
(* Names: attribute names of the models and sort directions, as text *)

N_id == <<"i","d">>
N_firstName == <<"f","i","r","s","t","N","a","m","e">>
N_lastName == <<"l","a","s","t","N","a","m","e">>
N_username == <<"u","s","e","r","n","a","m","e">>
N_email == <<"e","m","a","i","l">>
N_phoneNumber == <<"p","h","o","n","e","N","u","m","b","e","r">>
N_hashedPassword == <<"h","a","s","h","e","d","P","a","s","s","w","o","r","d">>
N_status == <<"s","t","a","t","u","s">>
N_role == <<"r","o","l","e">>
N_createdAt == <<"c","r","e","a","t","e","d","A","t">>
N_updatedAt == <<"u","p","d","a","t","e","d","A","t">>
N_title == <<"t","i","t","l","e">>
N_description == <<"d","e","s","c","r","i","p","t","i","o","n">>
N_label == <<"l","a","b","e","l">>
N_priority == <<"p","r","i","o","r","i","t","y">>
N_dueDate == <<"d","u","e","D","a","t","e">>
N_assignee == <<"a","s","s","i","g","n","e","e">>
N_bogus == <<"b","o","g","u","s">>
N_tablename == <<"_","_","t","a","b","l","e","n","a","m","e","_","_">>
N_metadata == <<"m","e","t","a","d","a","t","a">>
N_asc == <<"a","s","c">>
N_desc == <<"d","e","s","c">>
N_DESC == <<"D","E","S","C">>
N_up == <<"u","p">>
T_bogus == N_bogus

NULL == <<"NULL">>       \* SQL NULL in a nullable column

\* models.py:10-20, the columns of User
UserColumns ==
    { N_id, N_firstName, N_lastName, N_username, N_email, N_phoneNumber,
      N_hashedPassword, N_status, N_role, N_createdAt, N_updatedAt }

\* models.py:26-35, the columns of Task
TaskColumns ==
    { N_id, N_title, N_description, N_status, N_label, N_priority, N_dueDate,
      N_assignee, N_createdAt, N_updatedAt }

\* attributes of a mapped class that are no columns: __tablename__ is a str
\* (models.py:8, 24), metadata comes from declarative_base (database.py:27)
ClassAttrs == { N_tablename, N_metadata }

\* getattr(model, name, None): "column", "other" (an object that is no
\* column and has no asc/desc) or "none"
GetAttr(columns, name) ==
    IF name \in columns THEN "column"
    ELSE IF name \in ClassAttrs THEN "other"
    ELSE "none"

\* the value of column col in a row
Field(row, col) ==
    CASE col = N_id          -> row.id
      [] col = N_firstName   -> row.firstName
      [] col = N_lastName    -> row.lastName
      [] col = N_username    -> row.username
      [] col = N_email       -> row.email
      [] col = N_phoneNumber -> row.phoneNumber
      [] col = N_status      -> row.status
      [] col = N_role        -> row.role
      [] col = N_createdAt   -> row.createdAt
      [] col = N_title       -> row.title
      [] col = N_description -> row.description
      [] col = N_label       -> row.label
      [] col = N_priority    -> row.priority
      [] col = N_assignee    -> row.assignee

----------------------------------------------------------------------------
(* Records the store may hold.  born is a history field: the id the row was *)
(* inserted with; no handler reads it.                                      *)

UserA == [ id |-> <<"u","1">>, firstName |-> <<"A","l">>, lastName |-> <<"B">>,
           username |-> <<"a","l","i">>, email |-> <<"a","@","b",".","c">>,
           phoneNumber |-> <<"1">>, status |-> T_active, role |-> T_admin,
           createdAt |-> 1, born |-> <<"u","1">> ]
UserB == [ id |-> <<"u","2">>, firstName |-> <<"B","o">>, lastName |-> <<"B">>,
           username |-> <<"b","o","b">>, email |-> <<"b","@","b",".","c">>,
           phoneNumber |-> NULL, status |-> T_invited, role |-> T_cashier,
           createdAt |-> 2, born |-> <<"u","2">> ]
UserC == [ id |-> <<"u","3">>, firstName |-> <<"a","l">>, lastName |-> <<"C">>,
           username |-> <<"A","L","I">>, email |-> <<"c","@","b",".","c">>,
           phoneNumber |-> <<"1">>, status |-> T_active, role |-> T_admin,
           createdAt |-> 2, born |-> <<"u","3">> ]

UserPool == { UserA, UserB, UserC }

TaskA == [ id |-> <<"T","1">>, title |-> <<"B","u","g">>, description |-> NULL,
           status |-> T_todo, label |-> T_bug, priority |-> T_high,
           assignee |-> <<"u","1">>, createdAt |-> 1, born |-> <<"T","1">> ]
TaskB == [ id |-> <<"T","2">>, title |-> <<"a","b">>,
           description |-> <<"b","u","g">>,
           status |-> T_done, label |-> T_feature, priority |-> T_high,
           assignee |-> NULL, createdAt |-> 1, born |-> <<"T","2">> ]
TaskC == [ id |-> <<"T","3">>, title |-> <<"A","b">>, description |-> <<"c">>,
           status |-> T_done, label |-> T_bug, priority |-> T_low,
           assignee |-> <<"u","1">>, createdAt |-> 2, born |-> <<"T","3">> ]

TaskPool == { TaskA, TaskB, TaskC }

\* the sequences without repetition of at most n elements of S
Arrangements(S, n) ==
    { q \in UNION { [1..k -> S] : k \in 0..n } :
        \A i, j \in 1..Len(q) : i /= j => q[i] /= q[j] }

----------------------------------------------------------------------------
(* The store: what a SQLite SELECT returns *)

Min(a, b) == IF a < b THEN a ELSE b

\* OFFSET n: a negative offset counts as zero
SqlOffset(rows, n) ==
    IF n <= 0 THEN rows ELSE SubSeq(rows, n + 1, Len(rows))

\* LIMIT n: a negative limit is no limit
SqlLimit(rows, n) ==
    IF n < 0 THEN rows ELSE SubSeq(rows, 1, Min(n, Len(rows)))

\* the columns whose values are numbers (timestamps, as ticks)
NumericColumns == { N_createdAt, N_updatedAt, N_dueDate }

\* ordering of the values of column col: numbers by value, text by character
\* code, NULL before everything else
KeyLess(col, a, b) ==
    IF col \in NumericColumns THEN a < b
    ELSE IF a = NULL THEN b /= NULL
    ELSE IF b = NULL THEN FALSE
    ELSE TextLess(a, b)

\* the value ORDER BY compares: an Enum column stores the member's name
SortKey(cls, row, col) ==
    IF cls /= {} THEN EnumStored(cls, Field(row, col)) ELSE Field(row, col)

IndexPerms(n) ==
    { p \in [1..n -> 1..n] : \A i, j \in 1..n : i /= j => p[i] /= p[j] }

\* ORDER BY col ASC|DESC: every arrangement of the rows in which no row
\* stands before a row that sorts strictly before it (SQL fixes no order
\* among rows whose keys are equal)
SqlOrderBy(rows, cls, col, dir) ==
    LET n == Len(rows)
        Before(x, y) ==
            IF dir = "desc"
            THEN KeyLess(col, SortKey(cls, y, col), SortKey(cls, x, col))
            ELSE KeyLess(col, SortKey(cls, x, col), SortKey(cls, y, col))
    IN  { [i \in 1..n |-> rows[p[i]]] :
            p \in { q \in IndexPerms(n) :
                      \A i, j \in 1..n :
                          i < j => ~Before(rows[q[j]], rows[q[i]]) } }

----------------------------------------------------------------------------
(* utils.py *)

\* mutant: the page size is not reduced to the maximum
ClampPageSize_Unclamped(page_size, max_page_size) == page_size

\* utils.py:122-123
ClampPageSize(page_size, max_page_size) ==
    IF page_size > max_page_size THEN max_page_size ELSE page_size

\* mutant: only negative page numbers are reset, page 0 is kept
ClampPage_ZeroKept(page) == IF page < 0 THEN 1 ELSE page

\* utils.py:126-127
ClampPage(page) == IF page < 1 THEN 1 ELSE page

\* mutant: the offset is one page too far
QueryOffset_PageAhead(page, page_size) == page * page_size

\* utils.py:130
QueryOffset(page, page_size) == (page - 1) * page_size

\* utils.py:133, query.count()
QueryCount(query) == Len(query)

\* utils.py:136, query.offset(offset).limit(page_size).all()
QuerySlice(query, offset, page_size) ==
    SqlLimit(SqlOffset(query, offset), page_size)

\* mutant: the total is counted on the page that was cut
paginate_query_TotalOfPage(query, page, page_size, max_page_size) ==
    LET size   == ClampPageSize(page_size, max_page_size)
        pg     == ClampPage(page)
        offset == QueryOffset(pg, size)
        items  == QuerySlice(query, offset, size)
    IN  [ items |-> items, total |-> Len(items),
          page |-> pg, page_size |-> size, offset |-> offset ]

\* paginate_query returns (items, total); page, page_size and offset are its
\* locals when it returns, kept so that they can be stated
paginate_query(query, page, page_size, max_page_size) ==
    LET size   == ClampPageSize(page_size, max_page_size)
        pg     == ClampPage(page)
        offset == QueryOffset(pg, size)
        total  == QueryCount(query)
        items  == QuerySlice(query, offset, size)
    IN  [ items |-> items, total |-> total,
          page |-> pg, page_size |-> size, offset |-> offset ]

\* mutant: the direction is compared as it is written
build_order_by_CaseSensitive(columns, sort_by, sort_order) ==
    IF ~Truthy(sort_by) THEN [kind |-> "none"]
    ELSE IF ~IsStr(sort_by) THEN [kind |-> "raise", exc |-> "TypeError"]
    ELSE IF GetAttr(columns, sort_by.v) = "none" THEN [kind |-> "none"]
    ELSE IF ~IsStr(sort_order) THEN [kind |-> "raise", exc |-> "AttributeError"]
    ELSE IF GetAttr(columns, sort_by.v) = "other"
         THEN [kind |-> "raise", exc |-> "AttributeError"]
    ELSE IF sort_order.v = N_desc
         THEN [kind |-> "desc", column |-> sort_by.v]
    ELSE [kind |-> "asc", column |-> sort_by.v]

\* build_order_by(model, sort_by, sort_order): [kind |-> "none"] for None,
\* [kind |-> "asc" | "desc", column] for a clause, [kind |-> "raise", exc]
\* when the call raises
build_order_by(columns, sort_by, sort_order) ==
    IF ~Truthy(sort_by) THEN [kind |-> "none"]
    ELSE IF ~IsStr(sort_by) THEN [kind |-> "raise", exc |-> "TypeError"]
    ELSE IF GetAttr(columns, sort_by.v) = "none" THEN [kind |-> "none"]
    ELSE IF ~IsStr(sort_order) THEN [kind |-> "raise", exc |-> "AttributeError"]
    ELSE IF GetAttr(columns, sort_by.v) = "other"
         THEN [kind |-> "raise", exc |-> "AttributeError"]
    ELSE IF Lower(sort_order.v) = N_desc
         THEN [kind |-> "desc", column |-> sort_by.v]
    ELSE [kind |-> "asc", column |-> sort_by.v]

\* Python bool
PyBool(b) == [t |-> "bool", v |-> <<b>>]

\* a keyword argument: the default when the caller does not pass it
Default(x, d) == IF x.t = "absent" THEN d ELSE x

\* utils.py:158, 180
M_success == <<"s","u","c","c","e","s","s">>

\* mutant: the payload is added only when it is truthy
create_response_TruthyData(data, message, code, success) ==
    LET response == [ code    |-> Default(code, PyInt(200)),
                      message |-> Default(message, PyStr(M_success)),
                      success |-> Default(success, PyBool(TRUE)) ]
    IN  IF ~Truthy(data) THEN response
        ELSE [ code |-> response.code, message |-> response.message,
               success |-> response.success, data |-> data ]

\* create_response, utils.py:156-172: a dict; an argument that is not passed
\* is Absent, data=None is Null
create_response(data, message, code, success) ==
    LET response == [ code    |-> Default(code, PyInt(200)),
                      message |-> Default(message, PyStr(M_success)),
                      success |-> Default(success, PyBool(TRUE)) ]
    IN  IF Default(data, Null) = Null THEN response
        ELSE [ code |-> response.code, message |-> response.message,
               success |-> response.success, data |-> data ]

\* mutant: the total is counted on the items
create_paginated_response_TotalOfItems(items, total, page, page_size, message, code, success) ==
    [ code |-> Default(code, PyInt(200)),
      message |-> Default(message, PyStr(M_success)),
      success |-> Default(success, PyBool(TRUE)),
      data |-> items, total |-> Len(items), page |-> page,
      pageSize |-> page_size ]

\* create_paginated_response, utils.py:175-193
create_paginated_response(items, total, page, page_size, message, code, success) ==
    [ code |-> Default(code, PyInt(200)),
      message |-> Default(message, PyStr(M_success)),
      success |-> Default(success, PyBool(TRUE)),
      data |-> items, total |-> total, page |-> page,
      pageSize |-> page_size ]

----------------------------------------------------------------------------
(* routers/users.py: get_users *)

\* int(x): [ok |-> TRUE, n] or [ok |-> FALSE] for ValueError / TypeError
RECURSIVE ParseDigits(_, _)
ParseDigits(s, acc) ==
    IF s = <<>> THEN acc
    ELSE ParseDigits(Tail(s), 10 * acc + (Ord(Head(s)) - Ord("1") + 1))

PyIntOf(x) ==
    CASE x.t = "int" -> [ok |-> TRUE, n |-> IntOf(x)]
      [] x.t = "str" /\ x.v /= <<>>
           /\ (\A i \in 1..Len(x.v) : x.v[i] \in {"1", "2", "3"})
           -> [ok |-> TRUE, n |-> ParseDigits(x.v, 0)]
      [] OTHER -> [ok |-> FALSE, n |-> 0]

\* users.py:63-69: page and page_size as integers
UserPageSpec(page, page_size) ==
    LET p == IF Truthy(page) THEN PyIntOf(page) ELSE [ok |-> TRUE, n |-> 1]
        s == IF Truthy(page_size) THEN PyIntOf(page_size)
             ELSE [ok |-> TRUE, n |-> DEFAULT_PAGE_SIZE]
    IN  IF p.ok /\ s.ok THEN [page |-> p.n, page_size |-> s.n]
        ELSE [page |-> 1, page_size |-> DEFAULT_PAGE_SIZE]

\* users.py:51-61: a list gives its first element, any other non-string None
FirstOrString(x) ==
    IF x.t = "list" /\ Len(x.v) > 0 THEN x.v[1]
    ELSE IF ~IsStr(x) THEN Null
    ELSE x

\* users.py:75: the search filter is applied
UserSearchActive(search) ==
    Truthy(search) /\ IsStr(search) /\ Strip(search.v) /= <<>>

\* mutant: an empty string is taken as a criterion too
UserCriterionActive_EmptyKept(x) == IsStr(x)

\* users.py:86, 90, 94, 98: an exact-match filter is applied
UserCriterionActive(x) == Truthy(x) /\ IsStr(x)

\* users.py:76-82
UserSearchMatch(u, search) ==
    LET pat == SearchPattern(search.v)
    IN  \/ ilike(u.firstName, pat)
        \/ ilike(u.lastName, pat)
        \/ ilike(u.username, pat)
        \/ ilike(u.email, pat)
        \/ ilike(u.phoneNumber, pat)

\* users.py:74-99: the WHERE clause of the query, c the criteria
\* [search, status, role, username, phoneNumber] after lines 42-61
UserWhere(u, c) ==
    /\ UserSearchActive(c.search) => UserSearchMatch(u, c.search)
    /\ UserCriterionActive(c.status) => EnumEq(UserStatus, u.status, c.status.v)
    /\ UserCriterionActive(c.role) => EnumEq(UserRole, u.role, c.role.v)
    /\ UserCriterionActive(c.username) => u.username = c.username.v
    /\ UserCriterionActive(c.phoneNumber) => u.phoneNumber = c.phoneNumber.v

\* users.py:42-46, 51-61: the criteria read from the request
UserCriteria(r) ==
    [ search      |-> Get(r.search),
      status      |-> FirstOrString(Get(r.status)),
      role        |-> FirstOrString(Get(r.role)),
      username    |-> Get(r.username),
      phoneNumber |-> Get(r.phoneNumber) ]

\* users.py:72-99: the filtered query
UserQuery(rows, r) ==
    LET c == UserCriteria(r)
        P(u) == UserWhere(u, c)
    IN  SelectSeq(rows, P)

\* the Enum class of a column of User, {} for the other columns
UserEnumOf(col) ==
    IF col = N_status THEN UserStatus
    ELSE IF col = N_role THEN UserRole
    ELSE {}

\* UserResponse.model_validate(user), schemas.py:83-88
UserResponse(u) ==
    [ id |-> u.id, firstName |-> u.firstName, lastName |-> u.lastName,
      username |-> u.username, email |-> u.email,
      phoneNumber |-> u.phoneNumber, status |-> u.status, role |-> u.role,
      createdAt |-> u.createdAt ]

MapSeq(f(_), s) == [i \in 1..Len(s) |-> f(s[i])]

NoRequest  == [op |-> "none"]
NoResponse == [http |-> 0]
NoLocals   == [op |-> "none"]

\* an unhandled exception: FastAPI answers 500
ServerError(exc) == [http |-> 500, body |-> [detail |-> exc]]

\* page and page_size of the request bodies the model sends
UserPageSpecs ==
    { [page |-> Absent,         page_size |-> Absent],
      [page |-> Absent,         page_size |-> PyInt(1)],
      [page |-> PyInt(2),       page_size |-> PyStr(<<"1">>)],
      [page |-> PyInt(0),       page_size |-> PyInt(2)],
      [page |-> PyInt(0 - 1),   page_size |-> PyInt(1)],
      [page |-> Absent,         page_size |-> PyInt(0)],
      [page |-> PyInt(2),       page_size |-> PyInt(0 - 1)],
      [page |-> PyStr(<<"a">>), page_size |-> PyInt(1)] }

NoUserCriteria ==
    [ search |-> Absent, username |-> Absent, phoneNumber |-> Absent,
      status |-> Absent, role |-> Absent ]

\* the filter criteria of the request bodies the model sends
UserCriteriaSets ==
    { NoUserCriteria,
      [NoUserCriteria EXCEPT !.search = PyStr(<<>>)],
      [NoUserCriteria EXCEPT !.search = PyStr(<<" ">>)],
      [NoUserCriteria EXCEPT !.search = PyStr(<<"a">>)],
      [NoUserCriteria EXCEPT !.search = PyStr(<<"B","O">>)],
      [NoUserCriteria EXCEPT !.search = PyStr(<<"_">>)],
      [NoUserCriteria EXCEPT !.status = PyStr(<<>>)],
      [NoUserCriteria EXCEPT !.status = PyStr(T_active)],
      [NoUserCriteria EXCEPT !.status = PyStr(T_ACTIVE)],
      [NoUserCriteria EXCEPT !.status = PyList(<<PyStr(T_invited)>>)],
      [NoUserCriteria EXCEPT !.role = PyStr(T_admin)],
      [NoUserCriteria EXCEPT !.username = PyStr(<<"a","l","i">>)],
      [NoUserCriteria EXCEPT !.phoneNumber = PyStr(<<"1">>)],
      [NoUserCriteria EXCEPT !.search = PyStr(<<"a">>),
                             !.status = PyStr(T_active)],
      [NoUserCriteria EXCEPT !.role = PyStr(T_admin),
                             !.phoneNumber = PyStr(<<"1">>),
                             !.status = PyStr(<<>>)] }

\* sort_by and sort_order of the request bodies the model sends
UserSortSpecs ==
    { [sort_by |-> Absent,              sort_order |-> Absent],
      [sort_by |-> Null,                sort_order |-> Absent],
      [sort_by |-> PyStr(N_createdAt),  sort_order |-> PyStr(N_asc)],
      [sort_by |-> PyStr(N_username),   sort_order |-> PyStr(N_asc)],
      [sort_by |-> PyStr(N_username),   sort_order |-> PyStr(N_DESC)],
      [sort_by |-> PyStr(N_lastName),   sort_order |-> PyStr(N_up)],
      [sort_by |-> PyStr(N_status),     sort_order |-> PyStr(N_desc)],
      [sort_by |-> PyStr(N_bogus),      sort_order |-> PyStr(N_asc)],
      [sort_by |-> PyStr(N_tablename),  sort_order |-> PyStr(N_asc)] }

\* the request bodies the model sends to POST /api/users
UserRequests ==
    { [ page |-> ps.page, page_size |-> ps.page_size,
        search |-> c.search, username |-> c.username,
        phoneNumber |-> c.phoneNumber, status |-> c.status, role |-> c.role,
        sort_by |-> so.sort_by, sort_order |-> so.sort_order ] :
        ps \in UserPageSpecs, c \in UserCriteriaSets, so \in UserSortSpecs }

\* users.py:34-114 over the rows of the table: the ways the handler can end,
\* each the response and the handler's locals (one way for each arrangement
\* ORDER BY may return)
UserListing(rows, r) ==
    LET spec  == UserPageSpec(GetDefault(r.page, PyInt(1)),
                              GetDefault(r.page_size, PyInt(DEFAULT_PAGE_SIZE)))
        query == UserQuery(rows, r)
        order_by == build_order_by(UserColumns,
                                   GetDefault(r.sort_by, PyStr(N_createdAt)),
                                   GetDefault(r.sort_order, PyStr(N_desc)))
    IN  IF order_by.kind = "raise"
        THEN { [ resp |-> ServerError(order_by.exc),
                 loc  |-> [op |-> "get_users", raised |-> TRUE] ] }
        ELSE { LET pq == paginate_query(ordered, spec.page, spec.page_size,
                                        MAX_PAGE_SIZE)
               IN  [ resp |-> [ http |-> 200,
                                body |-> create_paginated_response(
                                           MapSeq(UserResponse, pq.items),
                                           pq.total, spec.page, spec.page_size,
                                           Absent, Absent, Absent) ],
                     loc  |-> [ op |-> "get_users", raised |-> FALSE,
                                query |-> query, order_by |-> order_by,
                                ordered |-> ordered, paginate |-> pq ] ] :
               ordered \in
                   IF order_by.kind = "none" THEN { query }
                   ELSE SqlOrderBy(query, UserEnumOf(order_by.column),
                                   order_by.column, order_by.kind) }

\* mutant: the handler writes the rows it ordered back to the table
get_users_SortsInPlace(r) ==
    /\ req' = [op |-> "get_users", params |-> r]
    /\ \E o \in UserListing(users, r) :
          /\ resp' = o.resp
          /\ loc' = o.loc
          /\ users' = IF o.loc.raised THEN users ELSE o.loc.ordered
    /\ UNCHANGED <<tasks, args, ret>>

\* POST /api/users, users.py:34-114
get_users(r) ==
    /\ req' = [op |-> "get_users", params |-> r]
    /\ \E o \in UserListing(users, r) : resp' = o.resp /\ loc' = o.loc
    /\ UNCHANGED <<users, tasks, args, ret>>

----------------------------------------------------------------------------
(* utils.py: get_current_user *)

\* bearer tokens: the development token, or a JWT with its subject, valid
\* when jwt.decode accepts it (signed with SECRET_KEY and not expired)
MockToken == [kind |-> "mock", sub |-> NULL, valid |-> FALSE]
Jwt(sub, valid) == [kind |-> "jwt", sub |-> sub, valid |-> valid]

\* a verify_token that reads the subject without checking the signature and
\* the expiry
verify_token_Unchecked(token) == token.sub

\* verify_token, utils.py:59-68: the username, or NULL for None
verify_token(token) == IF token.valid THEN token.sub ELSE NULL

\* get_current_user, utils.py:71-100: [ok |-> TRUE, user] or [ok |-> FALSE]
\* for the 401 credentials_exception
get_current_user(token, rows) ==
    IF token.kind = "mock"
    THEN IF rows = <<>> THEN [ok |-> FALSE, user |-> NULL]
         ELSE [ok |-> TRUE, user |-> rows[1]]
    ELSE LET username == verify_token(token)
             found == SelectSeq(rows, LAMBDA u : u.username = username)
         IN  IF username = NULL \/ found = <<>>
             THEN [ok |-> FALSE, user |-> NULL]
             ELSE [ok |-> TRUE, user |-> found[1]]

Unauthorized ==
    [http |-> 401, body |-> [detail |-> "Could not validate credentials"]]

----------------------------------------------------------------------------
(* routers/tasks.py: get_tasks *)

\* the values of the members of an Enum class
Values(cls) == { m.value : m \in cls }

\* tasks.py:37-45: FastAPI accepts the query parameters (else it answers 422)
TaskParamsValid(page, page_size, r) ==
    /\ page >= 1
    /\ page_size >= 1 /\ page_size <= 100
    /\ r.status.t /= "absent" => r.status.v \in Values(TaskStatus)
    /\ r.label.t /= "absent" => r.label.v \in Values(TaskLabel)
    /\ r.priority.t /= "absent" => r.priority.v \in Values(TaskPriority)

Unprocessable == [http |-> 422, body |-> [detail |-> "validation error"]]

\* tasks.py:55-59
TaskSearchMatch(t, search) ==
    LET pat == SearchPattern(search.v)
    IN  \/ ilike(t.title, pat)
        \/ ilike(t.description, pat)
        \/ ilike(t.id, pat)

\* tasks.py:53-76: the WHERE clause of the query
TaskWhere(t, c) ==
    /\ Truthy(c.search) => TaskSearchMatch(t, c.search)
    /\ Truthy(c.status) => EnumEq(TaskStatus, t.status, c.status.v)
    /\ Truthy(c.label) => EnumEq(TaskLabel, t.label, c.label.v)
    /\ Truthy(c.priority) => EnumEq(TaskPriority, t.priority, c.priority.v)
    /\ Truthy(c.assignee) => t.assignee = c.assignee.v

\* tasks.py:39-43: the criteria, None when a parameter is not given
TaskCriteria(r) ==
    [ search   |-> Get(r.search),
      status   |-> Get(r.status),
      label    |-> Get(r.label),
      priority |-> Get(r.priority),
      assignee |-> Get(r.assignee) ]

\* tasks.py:51-76: the filtered query
TaskQuery(rows, r) ==
    LET c == TaskCriteria(r)
        P(t) == TaskWhere(t, c)
    IN  SelectSeq(rows, P)

TaskEnumOf(col) ==
    IF col = N_status THEN TaskStatus
    ELSE IF col = N_label THEN TaskLabel
    ELSE IF col = N_priority THEN TaskPriority
    ELSE {}

\* tasks.py:80, "if order_by:": None is false; the truth value of a SQL
\* clause is not defined, bool() of it raises TypeError (users.py:103 notes
\* the repair made there)
ClauseTruth(order_by) ==
    IF order_by.kind = "none" THEN [ok |-> TRUE, value |-> FALSE]
    ELSE [ok |-> FALSE, value |-> FALSE]

\* TaskResponse.model_validate(task), schemas.py:148-153
TaskResponse(t) ==
    [ id |-> t.id, title |-> t.title, description |-> t.description,
      status |-> t.status, label |-> t.label, priority |-> t.priority,
      assignee |-> t.assignee, createdAt |-> t.createdAt ]

Tokens == { MockToken, Jwt(<<"a","l","i">>, TRUE), Jwt(<<"a","l","i">>, FALSE) }

\* page and page_size of the query strings the model sends
TaskPageSpecs ==
    { [page |-> Absent,   page_size |-> Absent],
      [page |-> Absent,   page_size |-> PyInt(1)],
      [page |-> PyInt(2), page_size |-> PyInt(1)],
      [page |-> PyInt(0), page_size |-> PyInt(1)],
      [page |-> Absent,   page_size |-> PyInt(MAX_PAGE_SIZE + 1)] }

NoTaskCriteria ==
    [ search |-> Absent, status |-> Absent, label |-> Absent,
      priority |-> Absent, assignee |-> Absent ]

\* the filter criteria of the query strings the model sends
TaskCriteriaSets ==
    { NoTaskCriteria,
      [NoTaskCriteria EXCEPT !.search = PyStr(<<>>)],
      [NoTaskCriteria EXCEPT !.search = PyStr(<<"b","u","g">>)],
      [NoTaskCriteria EXCEPT !.search = PyStr(<<"_","b">>)],
      [NoTaskCriteria EXCEPT !.status = PyStr(T_done)],
      [NoTaskCriteria EXCEPT !.status = PyStr(T_DONE)],
      [NoTaskCriteria EXCEPT !.label = PyStr(T_bug)],
      [NoTaskCriteria EXCEPT !.assignee = PyStr(<<>>)],
      [NoTaskCriteria EXCEPT !.assignee = PyStr(<<"u","1">>)],
      [NoTaskCriteria EXCEPT !.assignee = PyStr(<<"U","1">>)],
      [NoTaskCriteria EXCEPT !.search = PyStr(<<"b","u","g">>),
                             !.priority = PyStr(T_high)] }

\* sort_by and sort_order of the query strings the model sends
TaskSortSpecs ==
    { [sort_by |-> Absent,           sort_order |-> Absent],
      [sort_by |-> PyStr(<<>>),      sort_order |-> Absent],
      [sort_by |-> PyStr(N_title),   sort_order |-> PyStr(N_asc)],
      [sort_by |-> PyStr(N_bogus),   sort_order |-> PyStr(N_asc)] }

\* the query strings the model sends to GET /api/tasks/
TaskRequests ==
    { [ page |-> ps.page, page_size |-> ps.page_size,
        search |-> c.search, status |-> c.status, label |-> c.label,
        priority |-> c.priority, assignee |-> c.assignee,
        sort_by |-> so.sort_by, sort_order |-> so.sort_order ] :
        ps \in TaskPageSpecs, c \in TaskCriteriaSets, so \in TaskSortSpecs }

\* tasks.py:35-91 over the rows of the two tables: the ways the request can
\* end, each the response and the handler's locals
TaskListing(urows, trows, token, r) ==
    LET auth      == get_current_user(token, urows)
        page      == IntOf(GetDefault(r.page, PyInt(1)))
        page_size == IntOf(GetDefault(r.page_size, PyInt(DEFAULT_PAGE_SIZE)))
        query     == TaskQuery(trows, r)
        order_by  == build_order_by(TaskColumns,
                                    GetDefault(r.sort_by, PyStr(N_createdAt)),
                                    GetDefault(r.sort_order, PyStr(N_desc)))
        truth     == ClauseTruth(order_by)
        raised    == [op |-> "get_tasks", raised |-> TRUE]
    IN  CASE ~auth.ok ->
                { [resp |-> Unauthorized, loc |-> raised] }
          [] auth.ok /\ ~TaskParamsValid(page, page_size, r) ->
                { [resp |-> Unprocessable, loc |-> raised] }
          [] auth.ok /\ TaskParamsValid(page, page_size, r)
               /\ order_by.kind = "raise" ->
                { [resp |-> ServerError(order_by.exc), loc |-> raised] }
          [] auth.ok /\ TaskParamsValid(page, page_size, r)
               /\ order_by.kind /= "raise" /\ ~truth.ok ->
                { [resp |-> ServerError("TypeError"), loc |-> raised] }
          [] OTHER ->
                { LET pq == paginate_query(ordered, page, page_size,
                                           MAX_PAGE_SIZE)
                  IN  [ resp |-> [ http |-> 200,
                                   body |-> create_paginated_response(
                                              MapSeq(TaskResponse, pq.items),
                                              pq.total, page, page_size,
                                              Absent, Absent, Absent) ],
                        loc  |-> [ op |-> "get_tasks", raised |-> FALSE,
                                   query |-> query, order_by |-> order_by,
                                   ordered |-> ordered, paginate |-> pq ] ] :
                  ordered \in
                      IF truth.value
                      THEN SqlOrderBy(query, TaskEnumOf(order_by.column),
                                      order_by.column, order_by.kind)
                      ELSE { query } }

\* GET /api/tasks/, tasks.py:35-91
get_tasks(token, r) ==
    /\ req' = [op |-> "get_tasks", params |-> r, token |-> token]
    /\ \E o \in TaskListing(users, tasks, token, r) :
          resp' = o.resp /\ loc' = o.loc
    /\ UNCHANGED <<users, tasks, args, ret>>

----------------------------------------------------------------------------
(* The list endpoints over a store of at most MaxRows rows *)

NoArgs     == [query |-> <<>>, page |-> 1, page_size |-> 1]
NoReturn   == [called |-> FALSE]

Init ==
    /\ users \in Arrangements(UserPool, MaxRows)
    /\ tasks \in Arrangements(TaskPool, MaxRows)
    /\ Len(users) + Len(tasks) <= MaxRows
    /\ req = NoRequest
    /\ resp = NoResponse
    /\ loc = NoLocals
    /\ args = NoArgs
    /\ ret = NoReturn

ListUsers == req = NoRequest /\ \E r \in UserRequests : get_users(r)

ListTasks ==
    req = NoRequest /\ \E token \in Tokens : \E r \in TaskRequests : get_tasks(token, r)

\* the response is sent; the server takes the next request (the handlers
\* are coroutines without an await: the event loop runs one at a time)
Reply ==
    /\ req /= NoRequest
    /\ req' = NoRequest
    /\ resp' = NoResponse
    /\ loc' = NoLocals
    /\ UNCHANGED <<users, tasks, args, ret>>

Next == ListUsers \/ ListTasks \/ Reply

Spec == Init /\ [][Next]_vars

----------------------------------------------------------------------------
(* paginate_query called directly *)

Iota(n) == [i \in 1..n |-> i]

\* the record sequences given to paginate_query: records are opaque, a
\* record is named by a number
PaginateQueries ==
    { Iota(n) : n \in 0..MaxLen }
      \cup { Iota(MAX_PAGE_SIZE + 1), Iota(2 * MAX_PAGE_SIZE + MaxLen) }

PaginatePages == (0 - 1)..MaxPage

PaginateSizes ==
    ((0 - 2)..MaxLen)
      \cup { MAX_PAGE_SIZE, MAX_PAGE_SIZE + 1, MAX_PAGE_SIZE + 50 }

InitPaginate ==
    /\ users = <<>>
    /\ tasks = <<>>
    /\ req = NoRequest
    /\ resp = NoResponse
    /\ loc = NoLocals
    /\ args \in [ query : PaginateQueries, page : PaginatePages,
                  page_size : PaginateSizes ]
    /\ ret = NoReturn

CallPaginate ==
    /\ ~ret.called
    /\ ret' = [ called |-> TRUE,
                result |-> paginate_query(args.query, args.page,
                                          args.page_size, MAX_PAGE_SIZE) ]
    /\ UNCHANGED <<users, tasks, req, resp, loc, args>>

NextPaginate == CallPaginate

SpecPaginate == InitPaginate /\ [][NextPaginate]_vars

----------------------------------------------------------------------------
(* create_response and create_paginated_response called directly *)

\* payloads: not passed, None, empty and non-empty values
EnvelopeData ==
    { Absent, Null, PyList(<<>>), PyList(<<PyInt(1)>>), PyInt(0),
      PyStr(<<>>), PyBool(FALSE) }

EnvelopeMessages == { Absent, PyStr(<<>>), PyStr(<<"n","o">>) }

EnvelopeCodes == { Absent, PyInt(200), PyInt(404), PyInt(0) }

EnvelopeFlags == { Absent, PyBool(TRUE), PyBool(FALSE) }

InitEnvelope ==
    /\ users = <<>>
    /\ tasks = <<>>
    /\ req = NoRequest
    /\ resp = NoResponse
    /\ loc = NoLocals
    /\ args \in
         [ fn : {"create_response"}, data : EnvelopeData,
           message : EnvelopeMessages, code : EnvelopeCodes,
           success : EnvelopeFlags ]
         \cup
         [ fn : {"create_paginated_response"},
           items : { Iota(n) : n \in 0..MaxLen }, total : 0..MaxLen,
           page : 0..MaxPage, page_size : {0, 1, DEFAULT_PAGE_SIZE},
           message : EnvelopeMessages, code : {Absent, PyInt(404)},
           success : {Absent, PyBool(FALSE)} ]
    /\ ret = NoReturn

CallCreateResponse ==
    /\ ~ret.called
    /\ args.fn = "create_response"
    /\ ret' = [ called |-> TRUE,
                result |-> create_response(args.data, args.message,
                                           args.code, args.success) ]
    /\ UNCHANGED <<users, tasks, req, resp, loc, args>>

CallCreatePaginatedResponse ==
    /\ ~ret.called
    /\ args.fn = "create_paginated_response"
    /\ ret' = [ called |-> TRUE,
                result |-> create_paginated_response(
                             args.items, args.total, args.page,
                             args.page_size, args.message, args.code,
                             args.success) ]
    /\ UNCHANGED <<users, tasks, req, resp, loc, args>>

NextEnvelope == CallCreateResponse \/ CallCreatePaginatedResponse

SpecEnvelope == InitEnvelope /\ [][NextEnvelope]_vars

----------------------------------------------------------------------------
(* The handlers that read or write one record, as functions of the tables: *)
(* each gives the set of ways the request can end, a way being the         *)
(* response and the rows of the two tables after it.                       *)

HttpError(code, detail) == [http |-> code, body |-> [detail |-> detail]]

Outcome(response, urows, trows) ==
    [resp |-> response, users |-> urows, tasks |-> trows]

\* the positions of the rows whose column id equals a request value
\* (filter(Model.id == value); None and values that are no text match no row)
Matching(rows, value) ==
    { i \in 1..Len(rows) : IsStr(value) /\ rows[i].id = value.v }

First(S) == CHOOSE i \in S : \A j \in S : i <= j

RemoveAt(rows, i) == SubSeq(rows, 1, i - 1) \o SubSeq(rows, i + 1, Len(rows))

\* func.now() of a row written now: not before any timestamp in the store
Now(urows, trows) ==
    LET ticks == { urows[i].createdAt : i \in 1..Len(urows) }
                   \cup { trows[i].createdAt : i \in 1..Len(trows) } \cup {1}
    IN  CHOOSE t \in ticks : \A x \in ticks : x <= t

\* a request value as the column value it is written as
ColumnValue(x) == IF x.t = "null" THEN NULL ELSE x.v

\* dict.get(key) of a dict modelled as a record of the keys it has
DictGet(d, k) == IF k \in DOMAIN d THEN d[k] ELSE Null

\* the member of an Enum class a column value stands for: a member's value
\* or name gives the member's value, anything else is refused by the column
EnumMember(cls, v) ==
    IF \E m \in cls : m.value = v \/ m.name = v
    THEN [ok |-> TRUE, value |-> (CHOOSE m \in cls : m.value = v \/ m.name = v).value]
    ELSE [ok |-> FALSE, value |-> v]

\* models.py:10-20: the attributes of User that are columns of the rows
UserFields ==
    { "id", "firstName", "lastName", "username", "email", "phoneNumber",
      "status", "role", "createdAt" }

\* models.py:11-18: NOT NULL and Enum columns accept the row at flush
UserRowAccepted(u) ==
    /\ \A f \in {"id", "firstName", "lastName", "username", "email",
                 "status", "role"} : u[f] /= NULL
    /\ EnumMember(UserStatus, u.status).ok
    /\ EnumMember(UserRole, u.role).ok

\* models.py:10, 13, 14: primary key and unique indexes of users
UsersUnique(rows) ==
    \A i, j \in 1..Len(rows) :
        i /= j => /\ rows[i].id /= rows[j].id
                  /\ rows[i].username /= rows[j].username
                  /\ rows[i].email /= rows[j].email

\* the row as db.refresh reads it back: Enum columns give their members
UserRefreshed(u) ==
    [u EXCEPT !.status = EnumMember(UserStatus, u.status).value,
              !.role = EnumMember(UserRole, u.role).value]

\* EmailStr: a local part, one @, a domain with a dot
IsEmail(e) ==
    /\ e /= NULL
    /\ Cardinality({ i \in 1..Len(e) : e[i] = "@" }) = 1
    /\ LET at == CHOOSE i \in 1..Len(e) : e[i] = "@"
       IN  /\ at > 1
           /\ \E k \in (at + 2)..(Len(e) - 1) : e[k] = "."

\* schemas.py:59-66, 83-88: UserResponse.model_validate accepts the row
UserResponseValid(u) ==
    /\ Len(u.firstName) >= 1
    /\ Len(u.lastName) >= 1
    /\ Len(u.username) >= 3
    /\ IsEmail(u.email)

\* return UserResponse.model_validate(user)
UserReply(u) ==
    IF UserResponseValid(u) THEN [http |-> 200, body |-> UserResponse(u)]
    ELSE ServerError("ValidationError")

\* the text messages of the responses (the source has them in Chinese; no
\* handler reads them)
M_userDeleted == <<"u","s","e","r"," ","d","e","l","e","t","e","d">>
M_userActivated == <<"u","s","e","r"," ","a","c","t","i","v","a","t","e","d">>
M_userSuspended == <<"u","s","e","r"," ","s","u","s","p","e","n","d","e","d">>
M_taskDeleted == <<"t","a","s","k"," ","d","e","l","e","t","e","d">>
M_taskStatus == <<"t","a","s","k"," ","s","t","a","t","u","s">>
M_taskAssigned == <<"t","a","s","k"," ","a","s","s","i","g","n","e","d">>

Message(m) ==
    [ http |-> 200,
      body |-> create_response(Absent, PyStr(m), Absent, Absent) ]

\* generate_uuid, utils.py:26-28: a uuid4 no row has yet
\* uuid4 values, in the order the model hands them out
NewUserIds ==
    << <<"u","X">>, <<"u","Y">>, <<"u","W">>, <<"u","V">>, <<"u","S">>,
       <<"u","R">>, <<"u","Q">>, <<"u","P">>, <<"u","O">>, <<"u","N">>,
       <<"u","M">>, <<"u","L">>, <<"u","K">>, <<"u","J">>, <<"u","I">>,
       <<"u","H">> >>

\* str(uuid.uuid4()): an id no row of the table has. The handlers only
\* compare ids, so the model hands out the first unused value.
generate_uuid(rows) ==
    LET used == { rows[i].id : i \in 1..Len(rows) }
        free == { k \in 1..Len(NewUserIds) : NewUserIds[k] \notin used }
    IN  { NewUserIds[k] : k \in { m \in free : \A n \in free : m <= n } }

\* POST /api/users/detail, users.py:117-131
get_user(urows, trows, r) ==
    LET found == Matching(urows, Get(r.user_id))
    IN  IF found = {}
        THEN { Outcome(HttpError(404, "user not found"), urows, trows) }
        ELSE { Outcome(UserReply(urows[First(found)]), urows, trows) }

\* POST /api/users/create, users.py:134-168
create_user(urows, trows, r) ==
    LET d == r.user_data
        username == DictGet(d, "username")
        email == DictGet(d, "email")
        Taken(f, x) == \E i \in 1..Len(urows) : urows[i][f] = ColumnValue(x)
        Row(id) ==
            [ f \in UserFields \cup {"born"} |->
                CASE f = "id" -> id
                  [] f = "born" -> id
                  [] f = "createdAt" -> Now(urows, trows)
                  [] f \in DOMAIN d -> ColumnValue(d[f])
                  [] f = "status" -> T_active
                  [] f = "role" -> T_cashier
                  [] OTHER -> NULL ]
    IN  IF Truthy(username) /\ Taken("username", username)
        THEN { Outcome(HttpError(400, "username exists"), urows, trows) }
        ELSE IF Truthy(email) /\ Taken("email", email)
        THEN { Outcome(HttpError(400, "email exists"), urows, trows) }
        ELSE IF (DOMAIN d \ {"password"}) \ (UserFields \ {"id"}) /= {}
        THEN \* User(id=..., **data): a second id, or a name that is no attribute
             { Outcome(ServerError("TypeError"), urows, trows) }
        ELSE { IF UserRowAccepted(Row(id)) /\ UsersUnique(Append(urows, Row(id)))
               THEN Outcome(UserReply(UserRefreshed(Row(id))),
                            Append(urows, UserRefreshed(Row(id))), trows)
               ELSE Outcome(ServerError("IntegrityError"), urows, trows) :
               id \in generate_uuid(urows) }

\* POST /api/users/update, users.py:171-210
update_user(urows, trows, r) ==
    LET found == Matching(urows, Get(r.user_id))
        d == r.user_data
        i == First(found)
        user == urows[i]
        Taken(f) == \E k \in 1..Len(urows) : urows[k][f] = ColumnValue(d[f])
        \* setattr(user, field, value) for every item of the dict; a name
        \* that is no column is set on the object and not written
        changed == [ f \in DOMAIN user |->
                       IF f \in DOMAIN d /\ f \in UserFields
                       THEN ColumnValue(d[f]) ELSE user[f] ]
        after == [urows EXCEPT ![i] = changed]
    IN  IF found = {}
        THEN { Outcome(HttpError(404, "user not found"), urows, trows) }
        ELSE IF "username" \in DOMAIN d
                  /\ ColumnValue(d.username) /= user.username
                  /\ Taken("username")
        THEN { Outcome(HttpError(400, "username exists"), urows, trows) }
        ELSE IF "email" \in DOMAIN d /\ ColumnValue(d.email) /= user.email
                  /\ Taken("email")
        THEN { Outcome(HttpError(400, "email exists"), urows, trows) }
        ELSE IF UserRowAccepted(changed) /\ UsersUnique(after)
        THEN { Outcome(UserReply(UserRefreshed(changed)),
                       [urows EXCEPT ![i] = UserRefreshed(changed)], trows) }
        ELSE { Outcome(ServerError("IntegrityError"), urows, trows) }

\* POST /api/users/delete, users.py:213-232
delete_user(urows, trows, r) ==
    LET found == Matching(urows, Get(r.user_id))
    IN  IF found = {}
        THEN { Outcome(HttpError(404, "user not found"), urows, trows) }
        ELSE { Outcome(Message(M_userDeleted),
                       RemoveAt(urows, First(found)), trows) }

\* users.py:414, 436: user.status = member; db.commit()
SetUserStatus(urows, trows, r, member, message) ==
    LET found == Matching(urows, Get(r.user_id))
    IN  IF found = {}
        THEN { Outcome(HttpError(404, "user not found"), urows, trows) }
        ELSE { Outcome(Message(message),
                       [urows EXCEPT ![First(found)].status = member],
                       trows) }

\* POST /api/users/activate, users.py:400-417
activate_user(urows, trows, r) ==
    SetUserStatus(urows, trows, r, T_active, M_userActivated)

\* POST /api/users/suspend, users.py:420-439
suspend_user(urows, trows, r) ==
    SetUserStatus(urows, trows, r, T_suspended, M_userSuspended)

\* email.split("@"): the pieces between the @ signs
AtSigns(e) == { i \in 1..Len(e) : e[i] = "@" }

LocalPart(e) == SubSeq(e, 1, First(AtSigns(e)) - 1)

DomainPart(e) == SubSeq(e, First(AtSigns(e)) + 1, Len(e))

\* users.py:296: exactly two pieces, the second not empty and with a dot
InviteEmailOk(e) ==
    /\ Cardinality(AtSigns(e)) = 1
    /\ DomainPart(e) /= <<>>
    /\ \E k \in 1..Len(DomainPart(e)) : DomainPart(e)[k] = "."

\* UserRole(role.lower()), users.py:313-314, 347-349: the member, or not ok
\* for ValueError (no such value) and AttributeError (role is no string)
RoleOf(role) ==
    IF IsStr(role) /\ Lower(role.v) \in Values(UserRole)
    THEN [ok |-> TRUE, value |-> Lower(role.v)]
    ELSE [ok |-> FALSE, value |-> NULL]

\* users.py:367: "_" and random.randint(1000, 9999), two of its values
RandomSuffixes == { <<"_","1","1","1","1">>, <<"_","2","2","2","2">> }

T_Invited == <<"I","n","v","i","t","e","d">>
T_User == <<"U","s","e","r">>

InviteReply(message, email) ==
    [ http |-> 200,
      body |-> [message |-> message, invited_users |-> <<email>>] ]

\* POST /api/users/invite, users.py:271-397 (email a string or not given)
\* an invite that is sent again whatever the status of the user
CanInviteAgain_AnyStatus(user) == TRUE

\* users.py:307: the user with the email of the invite is still invited
CanInviteAgain(user) == user.status = T_invited

invite_users(urows, trows, r) ==
    LET email == Get(r.email)
        role  == Get(r.role)
        existing == { i \in 1..Len(urows) : urows[i].email = email.v }
        user  == urows[First(existing)]
        new_role == RoleOf(role)
        \* users.py:341-349: no role given is UserRole.CASHIER
        user_role == IF Truthy(role) THEN new_role.value ELSE T_cashier
        name  == LocalPart(email.v)
        names == IF \E i \in 1..Len(urows) : urows[i].username = name
                 THEN { name \o x : x \in RandomSuffixes }
                 ELSE { name }
        Row(id, username) ==
            [ id |-> id, firstName |-> T_Invited, lastName |-> T_User,
              username |-> username, email |-> email.v, phoneNumber |-> NULL,
              status |-> T_invited, role |-> user_role,
              createdAt |-> Now(urows, trows), born |-> id ]
    IN  IF ~Truthy(email)
        THEN { Outcome(HttpError(400, "email is empty"), urows, trows) }
        ELSE IF ~InviteEmailOk(email.v)
        THEN { Outcome(HttpError(400, "email is malformed"), urows, trows) }
        ELSE IF existing /= {} /\ CanInviteAgain(user)
        THEN { Outcome(InviteReply("invitation sent again", email.v),
                       IF Truthy(role) /\ new_role.ok
                       THEN [urows EXCEPT ![First(existing)].role = new_role.value]
                       ELSE urows,
                       trows) }
        ELSE IF existing /= {}
        THEN { Outcome(HttpError(400, "email is registered"), urows, trows) }
        ELSE IF Truthy(role) /\ ~new_role.ok
        THEN { Outcome(HttpError(400, "invalid role"), urows, trows) }
        ELSE { IF UsersUnique(Append(urows, Row(id, username)))
               THEN Outcome(InviteReply("invitation sent", email.v),
                            Append(urows, Row(id, username)), trows)
               ELSE Outcome(HttpError(500, "could not create the user"),
                            urows, trows) :
               id \in generate_uuid(urows), username \in names }

\* models.py:26-31: NOT NULL columns of tasks
TaskRowAccepted(t) ==
    \A f \in {"id", "title", "status", "label", "priority"} : t[f] /= NULL

\* models.py:26: primary key of tasks
TasksUnique(rows) ==
    \A i, j \in 1..Len(rows) : i /= j => rows[i].id /= rows[j].id

\* generate_task_id, utils.py:31-33: "TASK-" and 8 hex digits of a uuid4, 32
\* random bits: an id no task has, or, less often, the id of a task
NewTaskIds == { <<"T","X">>, <<"T","1">> }

generate_task_id == NewTaskIds

\* schemas.py:124-131, 138-145: the fields of TaskCreate and TaskUpdate that
\* are columns of the rows; the models ignore every other key of a body
TaskBodyKeys ==
    {"title", "description", "status", "label", "priority", "assignee"}

TaskBody(d) == [ k \in DOMAIN d \cap TaskBodyKeys |-> d[k] ]

\* schemas.py:124-131 (TaskCreate) and 138-145 (TaskUpdate): FastAPI accepts
\* the body, a record of the keys it has (else it answers 422)
TaskBodyValid(d, required) ==
    /\ required \subseteq DOMAIN d
    /\ "title" \in DOMAIN d =>
         (d.title = Null /\ "title" \notin required)
           \/ (IsStr(d.title) /\ Len(d.title.v) >= 1)
    /\ "description" \in DOMAIN d => d.description = Null \/ IsStr(d.description)
    /\ "status" \in DOMAIN d =>
         (d.status = Null /\ required = {})
           \/ (IsStr(d.status) /\ d.status.v \in Values(TaskStatus))
    /\ "label" \in DOMAIN d =>
         (d.label = Null /\ required = {})
           \/ (IsStr(d.label) /\ d.label.v \in Values(TaskLabel))
    /\ "priority" \in DOMAIN d =>
         (d.priority = Null /\ required = {})
           \/ (IsStr(d.priority) /\ d.priority.v \in Values(TaskPriority))
    /\ "assignee" \in DOMAIN d => d.assignee = Null \/ IsStr(d.assignee)

\* return TaskResponse.model_validate(task): the rows a flush accepted are
\* valid but for an empty title, which TaskUpdate refuses at the door
TaskReply(t) == [http |-> 200, body |-> TaskResponse(t)]

\* Task(id=..., **task_data.model_dump()) of a valid TaskCreate body
NewTask(id, d, urows, trows) ==
    [ id |-> id, born |-> id,
      title |-> d.title.v,
      description |-> ColumnValue(DictGet(d, "description")),
      status |-> IF "status" \in DOMAIN d THEN d.status.v ELSE T_todo,
      label |-> IF "label" \in DOMAIN d THEN d.label.v ELSE T_feature,
      priority |-> IF "priority" \in DOMAIN d THEN d.priority.v ELSE T_medium,
      assignee |-> ColumnValue(DictGet(d, "assignee")),
      createdAt |-> Now(urows, trows) ]

\* tasks.py:119-125, 156-162, 294-299: the assignee named is no user
AssigneeMissing(urows, assignee) ==
    Truthy(assignee) /\ Matching(urows, assignee) = {}

\* GET /api/tasks/{task_id}, tasks.py:94-108
get_task(urows, trows, token, r) ==
    LET found == Matching(trows, r.task_id)
    IN  IF ~get_current_user(token, urows).ok
        THEN { Outcome(Unauthorized, urows, trows) }
        ELSE IF found = {}
        THEN { Outcome(HttpError(404, "task not found"), urows, trows) }
        ELSE { Outcome(TaskReply(trows[First(found)]), urows, trows) }

\* POST /api/tasks/, tasks.py:111-137
create_task(urows, trows, token, r) ==
    LET d == TaskBody(r.task_data)
    IN  IF ~get_current_user(token, urows).ok
        THEN { Outcome(Unauthorized, urows, trows) }
        ELSE IF ~TaskBodyValid(d, {"title"})
        THEN { Outcome(Unprocessable, urows, trows) }
        ELSE IF AssigneeMissing(urows, DictGet(d, "assignee"))
        THEN { Outcome(HttpError(400, "assignee not found"), urows, trows) }
        ELSE { IF TasksUnique(Append(trows, NewTask(id, d, urows, trows)))
               THEN Outcome(TaskReply(NewTask(id, d, urows, trows)), urows,
                            Append(trows, NewTask(id, d, urows, trows)))
               ELSE Outcome(ServerError("IntegrityError"), urows, trows) :
               id \in generate_task_id }

\* PUT /api/tasks/{task_id}, tasks.py:140-172
update_task(urows, trows, token, r) ==
    LET found == Matching(trows, r.task_id)
        d == TaskBody(r.task_data)
        i == First(found)
        task == trows[i]
        \* model_dump(exclude_unset=True): the keys of the body
        changed == [ f \in DOMAIN task |->
                       IF f \in DOMAIN d THEN ColumnValue(d[f]) ELSE task[f] ]
    IN  IF ~get_current_user(token, urows).ok
        THEN { Outcome(Unauthorized, urows, trows) }
        ELSE IF ~TaskBodyValid(d, {})
        THEN { Outcome(Unprocessable, urows, trows) }
        ELSE IF found = {}
        THEN { Outcome(HttpError(404, "task not found"), urows, trows) }
        ELSE IF AssigneeMissing(urows, DictGet(d, "assignee"))
        THEN { Outcome(HttpError(400, "assignee not found"), urows, trows) }
        ELSE IF TaskRowAccepted(changed)
        THEN { Outcome(TaskReply(changed), urows,
                       [trows EXCEPT ![i] = changed]) }
        ELSE { Outcome(ServerError("IntegrityError"), urows, trows) }

\* DELETE /api/tasks/{task_id}, tasks.py:175-192
delete_task(urows, trows, token, r) ==
    LET found == Matching(trows, r.task_id)
    IN  IF ~get_current_user(token, urows).ok
        THEN { Outcome(Unauthorized, urows, trows) }
        ELSE IF found = {}
        THEN { Outcome(HttpError(404, "task not found"), urows, trows) }
        ELSE { Outcome(Message(M_taskDeleted), urows,
                       RemoveAt(trows, First(found))) }

\* PUT /api/tasks/{task_id}/status, tasks.py:230-248.  The parameter status
\* (line 233) hides fastapi's status module in the body of the function:
\* status.HTTP_404_NOT_FOUND on line 241 is read on the TaskStatus member and
\* raises AttributeError.
update_task_status(urows, trows, token, r) ==
    LET found == Matching(trows, r.task_id)
    IN  IF ~get_current_user(token, urows).ok
        THEN { Outcome(Unauthorized, urows, trows) }
        ELSE IF ~(IsStr(r.status) /\ r.status.v \in Values(TaskStatus))
        THEN { Outcome(Unprocessable, urows, trows) }
        ELSE IF found = {}
        THEN { Outcome(ServerError("AttributeError"), urows, trows) }
        ELSE { Outcome(Message(M_taskStatus), urows,
                       [trows EXCEPT ![First(found)].status = r.status.v]) }

\* PUT /api/tasks/{task_id}/assign, tasks.py:251-277
assign_task(urows, trows, token, r) ==
    LET found == Matching(trows, r.task_id)
    IN  IF ~get_current_user(token, urows).ok
        THEN { Outcome(Unauthorized, urows, trows) }
        ELSE IF ~IsStr(r.assignee_id)
        THEN { Outcome(Unprocessable, urows, trows) }
        ELSE IF found = {}
        THEN { Outcome(HttpError(404, "task not found"), urows, trows) }
        ELSE IF Matching(urows, r.assignee_id) = {}
        THEN { Outcome(HttpError(400, "assignee not found"), urows, trows) }
        ELSE { Outcome(Message(M_taskAssigned), urows,
                       [trows EXCEPT ![First(found)].assignee = r.assignee_id.v]) }

\* the TaskCreate bodies of a list that are added: tasks.py:291-310
RECURSIVE ImportAdded(_, _, _, _)
ImportAdded(bodies, ids, urows, trows) ==
    IF bodies = <<>> THEN <<>>
    ELSE IF AssigneeMissing(urows, DictGet(Head(bodies), "assignee"))
    THEN ImportAdded(Tail(bodies), ids, urows, trows)
    ELSE <<NewTask(Head(ids), Head(bodies), urows, trows)>>
           \o ImportAdded(Tail(bodies), Tail(ids), urows, trows)

\* POST /api/tasks/import, tasks.py:280-319
import_tasks(urows, trows, token, r) ==
    LET bodies == [k \in 1..Len(r.tasks) |-> TaskBody(r.tasks[k])]
        failed == SelectSeq(bodies,
                     LAMBDA d : AssigneeMissing(urows, DictGet(d, "assignee")))
    IN  IF ~get_current_user(token, urows).ok
        THEN { Outcome(Unauthorized, urows, trows) }
        ELSE IF \E k \in 1..Len(bodies) : ~TaskBodyValid(bodies[k], {"title"})
        THEN { Outcome(Unprocessable, urows, trows) }
        ELSE { LET added == ImportAdded(bodies, ids, urows, trows)
               IN  IF TasksUnique(trows \o added)
                   THEN Outcome([ http |-> 200,
                                  body |-> [ imported_count |-> Len(added),
                                             failed_count |-> Len(failed),
                                             failed_tasks |->
                                               [k \in 1..Len(failed) |->
                                                  failed[k].title.v] ] ],
                                urows, trows \o added)
                   ELSE Outcome(ServerError("IntegrityError"), urows, trows) :
               ids \in [1..Len(bodies) -> generate_task_id] }

\* the loop of a bulk delete over the ids of the request. Each id is looked
\* up in the table as stored: the session does not flush before a query
\* (autoflush=False), so a row marked with db.delete(row) is still found.
\* db.delete of a row that is marked already does nothing.
RECURSIVE BulkLoop(_, _, _)
BulkLoop(ids, rows, acc) ==
    IF ids = <<>> THEN acc
    ELSE LET found == Matching(rows, Head(ids))
         IN  BulkLoop(Tail(ids), rows,
                IF found = {}
                THEN [acc EXCEPT !.failed_count = @ + 1,
                                 !.failed_ids = Append(@, Head(ids).v)]
                ELSE [acc EXCEPT !.marked = @ \cup { First(found) },
                                 !.deleted_count = @ + 1])

BulkStart ==
    [marked |-> {}, deleted_count |-> 0, failed_count |-> 0, failed_ids |-> <<>>]

\* db.commit(): the rows marked for deletion leave the table
Unmarked(rows, marked) ==
    LET kept == { k \in 1..Len(rows) : k \notin marked }
        Nth(n) == CHOOSE k \in kept :
                      Cardinality({ m \in kept : m < k }) = n - 1
    IN  [n \in 1..Cardinality(kept) |-> rows[Nth(n)]]

BulkReply(acc) ==
    [ http |-> 200,
      body |-> [ deleted_count |-> acc.deleted_count,
                 failed_count |-> acc.failed_count,
                 failed_ids |-> acc.failed_ids ] ]

bulk_delete_users(urows, trows, r) ==
    LET ids == IF "ids" \in DOMAIN r THEN r.ids ELSE <<>>
        acc == BulkLoop(ids, urows, BulkStart)
    IN  { Outcome(BulkReply(acc), Unmarked(urows, acc.marked), trows) }

bulk_delete_tasks(urows, trows, token, r) ==
    LET acc == BulkLoop(r.ids, trows, BulkStart)
    IN  IF ~get_current_user(token, urows).ok
        THEN { Outcome(Unauthorized, urows, trows) }
        ELSE IF r.ids = <<>> \/ \E k \in 1..Len(r.ids) : ~IsStr(r.ids[k])
        THEN { Outcome(Unprocessable, urows, trows) }
        ELSE { Outcome(BulkReply(acc), urows, Unmarked(trows, acc.marked)) }

----------------------------------------------------------------------------
(* The server, one request at a time, with the handlers that write *)

U_1 == <<"u","1">>
U_2 == <<"u","2">>
U_Z == <<"u","Z">>
K_1 == <<"T","1">>
K_Z == <<"T","Z">>

\* user_id of the request bodies: the id of a user, of no user, none
UserIdsAsked == { PyStr(U_1), PyStr(U_Z), Absent }

\* user_id of the activate and suspend requests: also the id of the first
\* user that a create or an invite adds
StatusIdsAsked == UserIdsAsked \cup { PyStr(NewUserIds[1]) }

NewUserData ==
    [ firstName |-> PyStr(<<"N">>), lastName |-> PyStr(<<"U">>),
      username |-> PyStr(<<"n","e","w">>),
      email |-> PyStr(<<"n","@","b",".","c">>),
      password |-> PyStr(<<"p","w">>) ]

\* user_data of POST /api/users/create: a new user, a username that may be
\* taken, an empty username, a body that names an id, a body without the
\* required fields
CreateUserData ==
    { NewUserData,
      [NewUserData EXCEPT !.username = PyStr(<<"a","l","i">>)],
      [NewUserData EXCEPT !.username = PyStr(<<>>)],
      [ firstName |-> PyStr(<<"N">>), lastName |-> PyStr(<<"U">>),
        username |-> PyStr(<<"n","e","w">>),
        email |-> PyStr(<<"n","@","b",".","c">>),
        password |-> PyStr(<<"p","w">>), id |-> PyStr(U_Z) ],
      [ username |-> PyStr(<<"n","e","w">>) ] }

\* user_data of POST /api/users/update
UpdateUserData ==
    { [ id |-> PyStr(U_Z) ],
      [ id |-> PyStr(U_2) ],
      [ username |-> PyStr(<<"b","o","b">>) ] }

InviteEmails ==
    { Absent, PyStr(<<"x">>), PyStr(<<"a","@","b",".","c">>),
      PyStr(<<"b","@","b",".","c">>), PyStr(<<"a","l","i","@","x",".","y">>),
      PyStr(<<"@","x",".","y">>) }

InviteRoles == { Absent, PyStr(T_ADMIN), PyStr(<<"b","o","s","s">>) }

CrudTokens == Tokens

TaskIdsAsked == { PyStr(K_1), PyStr(K_Z) }

\* bodies of POST /api/tasks/ and of the tasks of POST /api/tasks/import
CreateTaskData ==
    { [ title |-> PyStr(<<"t">>) ],
      [ title |-> PyStr(<<"t">>), assignee |-> PyStr(U_Z) ],
      [ description |-> PyStr(<<"d">>) ] }

\* bodies of PUT /api/tasks/{task_id}
UpdateTaskData ==
    { [ status |-> PyStr(T_done) ],
      [ title |-> Null ],
      [ id |-> PyStr(K_Z), status |-> PyStr(T_done) ] }

ImportLists ==
    { << [ title |-> PyStr(<<"t">>) ] >>,
      << [ title |-> PyStr(<<"t">>) ],
         [ title |-> PyStr(<<"t">>), assignee |-> PyStr(U_Z) ] >> }

\* ids of POST /api/users/bulk-delete
BulkUserIds ==
    { <<>>, <<PyStr(U_1)>>, <<PyStr(U_1), PyStr(U_1)>>,
      <<PyStr(U_Z), PyStr(U_1)>> }

\* ids of DELETE /api/tasks/
BulkTaskIds ==
    { <<>>, <<PyStr(K_1)>>, <<PyStr(K_1), PyStr(K_1)>>,
      <<PyStr(K_Z), PyStr(K_1)>> }

InitCrud ==
    /\ users \in { <<UserA>>, <<UserA, UserB>> }
    /\ tasks \in { <<>>, <<TaskA>> }
    /\ Len(users) + Len(tasks) <= MaxRows
    /\ req = NoRequest
    /\ resp = NoResponse
    /\ loc = NoLocals
    /\ args = NoArgs
    /\ ret = NoReturn

\* the server takes a request, runs its handler to the end and has the
\* response: one of the ways the handler can end
Serve(request, outcomes) ==
    /\ req = NoRequest
    /\ \E o \in outcomes :
         /\ req' = request
         /\ resp' = o.resp
         /\ users' = o.users
         /\ tasks' = o.tasks
    /\ loc' = [op |-> request.op]
    /\ UNCHANGED <<args, ret>>

\* the tables have room for n more rows
Room(n) == Len(users) + Len(tasks) + n <= MaxRows

GetUser ==
    \E id \in UserIdsAsked :
        LET r == [user_id |-> id]
        IN  Serve([op |-> "get_user", params |-> r], get_user(users, tasks, r))

CreateUser ==
    /\ Room(1)
    /\ \E d \in CreateUserData :
         LET r == [user_data |-> d]
         IN  Serve([op |-> "create_user", params |-> r],
                   create_user(users, tasks, r))

UpdateUser ==
    \E id \in UserIdsAsked, d \in UpdateUserData :
        LET r == [user_id |-> id, user_data |-> d]
        IN  Serve([op |-> "update_user", params |-> r],
                  update_user(users, tasks, r))

DeleteUser ==
    \E id \in UserIdsAsked :
        LET r == [user_id |-> id]
        IN  Serve([op |-> "delete_user", params |-> r],
                  delete_user(users, tasks, r))

InviteUsers ==
    /\ Room(1)
    /\ \E email \in InviteEmails, role \in InviteRoles :
         LET r == [email |-> email, role |-> role]
         IN  Serve([op |-> "invite_users", params |-> r],
                   invite_users(users, tasks, r))

ActivateUser ==
    \E id \in StatusIdsAsked :
        LET r == [user_id |-> id]
        IN  Serve([op |-> "activate_user", params |-> r],
                  activate_user(users, tasks, r))

SuspendUser ==
    \E id \in StatusIdsAsked :
        LET r == [user_id |-> id]
        IN  Serve([op |-> "suspend_user", params |-> r],
                  suspend_user(users, tasks, r))

GetTask ==
    \E token \in CrudTokens, id \in TaskIdsAsked :
        LET r == [task_id |-> id]
        IN  Serve([op |-> "get_task", params |-> r, token |-> token],
                  get_task(users, tasks, token, r))

CreateTask ==
    /\ Room(1)
    /\ \E token \in CrudTokens, d \in CreateTaskData :
         LET r == [task_data |-> d]
         IN  Serve([op |-> "create_task", params |-> r, token |-> token],
                   create_task(users, tasks, token, r))

UpdateTask ==
    \E token \in CrudTokens, id \in TaskIdsAsked, d \in UpdateTaskData :
        LET r == [task_id |-> id, task_data |-> d]
        IN  Serve([op |-> "update_task", params |-> r, token |-> token],
                  update_task(users, tasks, token, r))

DeleteTask ==
    \E token \in CrudTokens, id \in TaskIdsAsked :
        LET r == [task_id |-> id]
        IN  Serve([op |-> "delete_task", params |-> r, token |-> token],
                  delete_task(users, tasks, token, r))

UpdateTaskStatus ==
    \E token \in CrudTokens, id \in TaskIdsAsked,
       st \in { PyStr(T_done), PyStr(T_bogus) } :
        LET r == [task_id |-> id, status |-> st]
        IN  Serve([op |-> "update_task_status", params |-> r, token |-> token],
                  update_task_status(users, tasks, token, r))

AssignTask ==
    \E token \in CrudTokens, id \in TaskIdsAsked,
       a \in { PyStr(U_1), PyStr(U_Z) } :
        LET r == [task_id |-> id, assignee_id |-> a]
        IN  Serve([op |-> "assign_task", params |-> r, token |-> token],
                  assign_task(users, tasks, token, r))

ImportTasks ==
    \E token \in CrudTokens, l \in ImportLists :
        /\ Room(Len(l))
        /\ LET r == [tasks |-> l]
           IN  Serve([op |-> "import_tasks", params |-> r, token |-> token],
                     import_tasks(users, tasks, token, r))

BulkDeleteUsers ==
    \E ids \in BulkUserIds :
        LET r == [ids |-> ids]
        IN  Serve([op |-> "bulk_delete_users", params |-> r],
                  bulk_delete_users(users, tasks, r))

BulkDeleteTasks ==
    \E token \in CrudTokens, ids \in BulkTaskIds :
        LET r == [ids |-> ids]
        IN  Serve([op |-> "bulk_delete_tasks", params |-> r, token |-> token],
                  bulk_delete_tasks(users, tasks, token, r))

NextCrud ==
    \/ GetUser \/ CreateUser \/ UpdateUser \/ DeleteUser \/ InviteUsers
    \/ ActivateUser \/ SuspendUser
    \/ GetTask \/ CreateTask \/ UpdateTask \/ DeleteTask \/ UpdateTaskStatus
    \/ AssignTask \/ ImportTasks
    \/ BulkDeleteUsers \/ BulkDeleteTasks
    \/ Reply

SpecCrud == InitCrud /\ [][NextCrud]_vars

\* the server taking only the requests of the users router
NextUsers ==
    \/ GetUser \/ CreateUser \/ UpdateUser \/ DeleteUser \/ InviteUsers
    \/ ActivateUser \/ SuspendUser \/ BulkDeleteUsers
    \/ Reply

SpecUsers == InitCrud /\ [][NextUsers]_vars

\* the server taking only the requests that write tasks and delete users
NextAssign ==
    \/ CreateTask \/ UpdateTask \/ AssignTask \/ ImportTasks
    \/ DeleteUser \/ BulkDeleteUsers
    \/ Reply

SpecAssign == InitCrud /\ [][NextAssign]_vars

----------------------------------------------------------------------------
(* The server with the requests of several clients in flight *)

Clients == { "c1", "c2" }

ListOps == { "get_users", "get_tasks" }

\* the list requests the clients send
ConcurrentLists ==
    { [op |-> "get_users", params |-> r] :
        r \in { q \in UserRequests :
                  /\ q.page = Absent /\ q.page_size \in { Absent, PyInt(1) }
                  /\ q.search = Absent /\ q.username = Absent
                  /\ q.phoneNumber = Absent /\ q.role = Absent
                  /\ q.status \in { Absent, PyStr(T_active) }
                  /\ q.sort_order = PyStr(N_asc)
                  /\ q.sort_by \in { PyStr(N_username), PyStr(N_tablename) } } }
    \cup
    { [op |-> "get_tasks", params |-> r, token |-> MockToken] :
        r \in { q \in TaskRequests :
                  /\ q.page = Absent /\ q.page_size \in { Absent, PyInt(1) }
                  /\ q.search = Absent /\ q.status = Absent
                  /\ q.label = Absent /\ q.priority = Absent
                  /\ q.assignee = Absent
                  /\ q.sort_by = PyStr(N_bogus) } }

\* the create, update and delete requests the clients send
ConcurrentWrites ==
    { [op |-> "create_user", params |-> [user_data |-> NewUserData]],
      [op |-> "update_user",
       params |-> [user_id |-> PyStr(U_1),
                   user_data |-> [username |-> PyStr(<<"b","o","b">>)]]],
      [op |-> "delete_user", params |-> [user_id |-> PyStr(U_1)]],
      [op |-> "create_task", token |-> MockToken,
       params |-> [task_data |-> [title |-> PyStr(<<"t">>)]]],
      [op |-> "update_task", token |-> MockToken,
       params |-> [task_id |-> PyStr(K_1),
                   task_data |-> [status |-> PyStr(T_done)]]],
      [op |-> "delete_task", token |-> MockToken,
       params |-> [task_id |-> PyStr(K_1)]] }

\* the handler of a write request, run from its first line to its last
Handle(request, urows, trows) ==
    CASE request.op = "create_user" ->
            create_user(urows, trows, request.params)
      [] request.op = "update_user" ->
            update_user(urows, trows, request.params)
      [] request.op = "delete_user" ->
            delete_user(urows, trows, request.params)
      [] request.op = "create_task" ->
            create_task(urows, trows, request.token, request.params)
      [] request.op = "update_task" ->
            update_task(urows, trows, request.token, request.params)
      [] request.op = "delete_task" ->
            delete_task(urows, trows, request.token, request.params)

\* the list handler of a request over the tables as they are
Listing(request, urows, trows) ==
    IF request.op = "get_users"
    THEN UserListing(urows, request.params)
    ELSE TaskListing(urows, trows, request.token, request.params)

\* the table a list request reads
Collection(request, urows, trows) ==
    IF request.op = "get_users" THEN urows ELSE trows

\* the number of rows of a table that match the criteria of a list request
Matches(request, rows) ==
    IF request.op = "get_users"
    THEN Len(UserQuery(rows, request.params))
    ELSE Len(TaskQuery(rows, request.params))

Idle == [pc |-> "idle"]

InitConcurrent ==
    /\ users \in { <<UserA>>, <<UserA, UserB>> }
    /\ tasks \in { <<>>, <<TaskA>> }
    /\ req = [c \in Clients |-> NoRequest]
    /\ resp = [c \in Clients |-> NoResponse]
    /\ loc = [c \in Clients |-> Idle]
    /\ args = NoArgs
    /\ ret = NoReturn

\* an event loop that takes another handler while one is between its two
\* queries
LoopFree_YieldsInPaginate == TRUE

\* no handler that has started has yet to return. The handlers are
\* coroutines (async def) whose bodies have no await, and the server is
\* one process with one event loop: a handler that has started keeps the
\* loop until it returns, and no other handler starts before.
LoopFree == \A c \in Clients : loc[c].pc /= "counted"

\* a client sends a request; the server has received it
Send(c) ==
    /\ req[c] = NoRequest
    /\ \E request \in ConcurrentLists \cup ConcurrentWrites :
         /\ request.op \in { "create_user", "create_task" } => Room(1)
         /\ req' = [req EXCEPT ![c] = request]
    /\ loc' = [loc EXCEPT ![c] = [pc |-> "received"]]
    /\ UNCHANGED <<users, tasks, resp, args, ret>>

\* the list handler runs up to total = query.count() of paginate_query, or
\* to the exception or the error response before it
ListCount(c) ==
    /\ loc[c].pc = "received"
    /\ req[c].op \in ListOps
    /\ LoopFree
    /\ \E o \in Listing(req[c], users, tasks) :
         IF o.loc.raised
         THEN /\ resp' = [resp EXCEPT ![c] = o.resp]
              /\ loc' = [loc EXCEPT ![c] = [pc |-> "done", raised |-> TRUE]]
         ELSE /\ resp' = resp
              /\ loc' = [loc EXCEPT ![c] =
                           [pc |-> "counted", total |-> o.loc.paginate.total]]
    /\ UNCHANGED <<users, tasks, req, args, ret>>

\* the list handler runs from query.offset(offset).limit(page_size).all()
\* to its return
ListSlice(c) ==
    /\ loc[c].pc = "counted"
    /\ \E o \in Listing(req[c], users, tasks) :
         /\ ~o.loc.raised
         /\ resp' = [resp EXCEPT ![c] =
                       [ http |-> 200,
                         body |-> create_paginated_response(
                                    o.resp.body.data, loc[c].total,
                                    o.resp.body.page, o.resp.body.pageSize,
                                    Absent, Absent, Absent) ]]
    /\ loc' = [loc EXCEPT ![c] =
                 [ pc |-> "done", raised |-> FALSE,
                   from |-> Collection(req[c], users, tasks) ]]
    /\ UNCHANGED <<users, tasks, req, args, ret>>

\* the handler of a create, update or delete request runs
Write(c) ==
    /\ loc[c].pc = "received"
    /\ req[c].op \notin ListOps
    /\ LoopFree
    /\ \E o \in Handle(req[c], users, tasks) :
         /\ users' = o.users
         /\ tasks' = o.tasks
         /\ resp' = [resp EXCEPT ![c] = o.resp]
    /\ loc' = [loc EXCEPT ![c] = [pc |-> "done", raised |-> FALSE]]
    /\ UNCHANGED <<req, args, ret>>

\* the client has its response
Receive(c) ==
    /\ loc[c].pc = "done"
    /\ req' = [req EXCEPT ![c] = NoRequest]
    /\ resp' = [resp EXCEPT ![c] = NoResponse]
    /\ loc' = [loc EXCEPT ![c] = Idle]
    /\ UNCHANGED <<users, tasks, args, ret>>

NextConcurrent ==
    \E c \in Clients :
        Send(c) \/ ListCount(c) \/ ListSlice(c) \/ Write(c) \/ Receive(c)

SpecConcurrent == InitConcurrent /\ [][NextConcurrent]_vars

----------------------------------------------------------------------------
(* The routes of the tasks router *)

\* a path is the sequence of its segments below /api/tasks/
PathParam == "{task_id}"

\* the routes in the order of their decorators in routers/tasks.py
TasksRoutes ==
    << [method |-> "GET",    path |-> <<>>,                      endpoint |-> "get_tasks"],
       [method |-> "GET",    path |-> <<PathParam>>,             endpoint |-> "get_task"],
       [method |-> "POST",   path |-> <<>>,                      endpoint |-> "create_task"],
       [method |-> "PUT",    path |-> <<PathParam>>,             endpoint |-> "update_task"],
       [method |-> "DELETE", path |-> <<PathParam>>,             endpoint |-> "delete_task"],
       [method |-> "DELETE", path |-> <<>>,                      endpoint |-> "bulk_delete_tasks"],
       [method |-> "PUT",    path |-> <<PathParam, "status">>,   endpoint |-> "update_task_status"],
       [method |-> "PUT",    path |-> <<PathParam, "assign">>,   endpoint |-> "assign_task"],
       [method |-> "POST",   path |-> <<"import">>,              endpoint |-> "import_tasks"],
       [method |-> "GET",    path |-> <<"export">>,              endpoint |-> "export_tasks"],
       [method |-> "GET",    path |-> <<"stats", "summary">>,    endpoint |-> "get_task_stats"],
       [method |-> "GET",    path |-> <<"dashboard">>,           endpoint |-> "get_dashboard_data"] >>

\* the path of a request matches the path of a route: a parameter takes any
\* one segment, a literal segment only itself
PathMatches(pattern, path) ==
    /\ Len(pattern) = Len(path)
    /\ \A k \in 1..Len(path) : pattern[k] = PathParam \/ pattern[k] = path[k]

\* the router gives the request to the first route, in the order of
\* declaration, whose path and method match; a path that only routes of
\* other methods have is answered 405, a path no route has 404
Dispatch(routes, method, path) ==
    LET matches == { k \in 1..Len(routes) : PathMatches(routes[k].path, path) }
        full == { k \in matches : routes[k].method = method }
    IN  IF full /= {} THEN routes[First(full)].endpoint
        ELSE IF matches /= {} THEN "405"
        ELSE "404"

MaxSegments == 2

Segments ==
    { "export", "dashboard", "stats", "summary", "import", "status",
      "assign", "T1" }

RECURSIVE PathsOf(_)
PathsOf(n) ==
    IF n = 0 THEN { <<>> }
    ELSE PathsOf(n - 1)
           \cup { Append(p, x) : p \in { q \in PathsOf(n - 1) : Len(q) = n - 1 },
                                 x \in Segments }

InitRoute ==
    /\ users = <<>>
    /\ tasks = <<>>
    /\ req = NoRequest
    /\ resp = NoResponse
    /\ loc = NoLocals
    /\ args \in [ method : { "GET", "POST", "PUT", "DELETE" },
                  path : PathsOf(MaxSegments) ]
    /\ ret = NoReturn

CallDispatch ==
    /\ ~ret.called
    /\ ret' = [ called |-> TRUE,
                result |-> Dispatch(TasksRoutes, args.method, args.path) ]
    /\ UNCHANGED <<users, tasks, req, resp, loc, args>>

NextRoute == CallDispatch

SpecRoute == InitRoute /\ [][NextRoute]_vars

----------------------------------------------------------------------------
(* init_database of seed.py, run when the server starts *)

\* users_data of create_sample_users (the names of the persons, Chinese in
\* the source, are left out: firstName and lastName are the texts below)
SampleUsers ==
    << [ username |-> <<"s","u","p","e","r","a","d","m","i","n">>,
         email |-> <<"s","u","p","e","r","a","d","m","i","n","@","e","x","a","m","p","l","e",".","c","o","m">>,
         phoneNumber |-> <<"1","3","9","0","0","0","0","0","0","0","1">>, status |-> T_active, role |-> T_superadmin ],
       [ username |-> <<"z","h","a","n","g","s","a","n">>,
         email |-> <<"z","h","a","n","g","s","a","n","@","e","x","a","m","p","l","e",".","c","o","m">>,
         phoneNumber |-> <<"1","3","9","0","0","0","0","0","0","0","2">>, status |-> T_active, role |-> T_admin ],
       [ username |-> <<"l","i","s","i">>,
         email |-> <<"l","i","s","i","@","e","x","a","m","p","l","e",".","c","o","m">>,
         phoneNumber |-> <<"1","3","9","0","0","0","0","0","0","0","3">>, status |-> T_active, role |-> T_manager ],
       [ username |-> <<"w","a","n","g","w","u">>,
         email |-> <<"w","a","n","g","w","u","@","e","x","a","m","p","l","e",".","c","o","m">>,
         phoneNumber |-> <<"1","3","9","0","0","0","0","0","0","0","4">>, status |-> T_inactive, role |-> T_cashier ],
       [ username |-> <<"z","h","a","o","l","i","u">>,
         email |-> <<"z","h","a","o","l","i","u","@","e","x","a","m","p","l","e",".","c","o","m">>,
         phoneNumber |-> <<"1","3","9","0","0","0","0","0","0","0","5">>, status |-> T_invited, role |-> T_cashier ],
       [ username |-> <<"q","i","a","n","q","i">>,
         email |-> <<"q","i","a","n","q","i","@","e","x","a","m","p","l","e",".","c","o","m">>,
         phoneNumber |-> <<"1","3","9","0","0","0","0","0","0","0","6">>, status |-> T_suspended, role |-> T_cashier ] >>

\* tasks_data of create_sample_tasks: assignee k is user_ids[k - 1], 0 is no
\* assignee (titles and descriptions, Chinese in the source, are numbered)
SampleTasks ==
    << [ status |-> T_done, label |-> T_feature, priority |-> T_high, assignee |-> 2 ],
       [ status |-> T_todo, label |-> T_bug, priority |-> T_medium, assignee |-> 3 ],
       [ status |-> T_in_progress, label |-> T_documentation, priority |-> T_low, assignee |-> 1 ],
       [ status |-> T_backlog, label |-> T_feature, priority |-> T_critical, assignee |-> 2 ],
       [ status |-> T_todo, label |-> T_feature, priority |-> T_medium, assignee |-> 3 ],
       [ status |-> T_done, label |-> T_bug, priority |-> T_high, assignee |-> 1 ],
       [ status |-> T_backlog, label |-> T_feature, priority |-> T_low, assignee |-> 0 ],
       [ status |-> T_canceled, label |-> T_feature, priority |-> T_high, assignee |-> 4 ],
       [ status |-> T_todo, label |-> T_documentation, priority |-> T_low, assignee |-> 3 ],
       [ status |-> T_in_progress, label |-> T_feature, priority |-> T_critical, assignee |-> 2 ] >>

\* ten results of generate_task_id that differ from each other
SampleTaskIds ==
    << <<"S","0">>, <<"S","1">>, <<"S","2">>, <<"S","3">>, <<"S","4">>, <<"S","5">>, <<"S","6">>, <<"S","7">>, <<"S","8">>, <<"S","9">> >>

\* the first n ids of NewUserIds that no row has
RECURSIVE FreshIds(_, _, _)
FreshIds(pool, used, n) ==
    IF n = 0 \/ pool = <<>> THEN <<>>
    ELSE IF Head(pool) \in used THEN FreshIds(Tail(pool), used, n)
    ELSE <<Head(pool)>> \o FreshIds(Tail(pool), used, n - 1)

\* the users table after create_sample_users has added its rows
create_sample_users(urows, trows) ==
    LET ids == FreshIds(NewUserIds, { urows[k].id : k \in 1..Len(urows) },
                        Len(SampleUsers))
    IN  urows \o
          [ k \in 1..Len(SampleUsers) |->
              [ id |-> ids[k], firstName |-> <<"F">>, lastName |-> <<"L">>,
                username |-> SampleUsers[k].username,
                email |-> SampleUsers[k].email,
                phoneNumber |-> SampleUsers[k].phoneNumber,
                status |-> SampleUsers[k].status,
                role |-> SampleUsers[k].role,
                createdAt |-> Now(urows, trows), born |-> ids[k] ] ]

\* the tasks table after create_sample_tasks has added its rows, for the
\* ids that generate_task_id returned
create_sample_tasks(urows, trows, user_ids, ids) ==
    trows \o
      [ k \in 1..Len(SampleTasks) |->
          [ id |-> ids[k], title |-> <<"t">>, description |-> <<"d">>,
            status |-> SampleTasks[k].status, label |-> SampleTasks[k].label,
            priority |-> SampleTasks[k].priority,
            assignee |-> IF SampleTasks[k].assignee = 0 THEN NULL
                         ELSE user_ids[SampleTasks[k].assignee],
            createdAt |-> Now(urows, trows), born |-> ids[k] ] ]

\* seeding that does not look at the users table first
SeedNeeded_Always(urows) == TRUE

\* seed.py:209-212: existing_users = db.query(User).count(); the sample
\* data is created only when it is 0
SeedNeeded(urows) == Len(urows) = 0

\* init_database: the tables it leaves and what it printed. The users are
\* committed before the tasks are created; an exception (two task ids that
\* are equal, a username that is taken) rolls back what is not committed.
init_database(urows, trows) ==
    LET seeded == create_sample_users(urows, trows)
        user_ids == [k \in 1..Len(seeded) |-> seeded[k].id]
        added == create_sample_tasks(seeded, trows, user_ids, SampleTaskIds)
        failed(u, t) == [users |-> u, tasks |-> t, printed |-> "failed"]
    IN  IF ~SeedNeeded(urows)
        THEN { [users |-> urows, tasks |-> trows, printed |-> "skipped"] }
        ELSE IF ~UsersUnique(seeded)
        THEN { failed(urows, trows) }
        ELSE { failed(seeded, trows) }
               \cup IF TasksUnique(added)
                    THEN { [users |-> seeded, tasks |-> added,
                            printed |-> "done"] }
                    ELSE {}

InitSeed ==
    /\ users \in { <<>>, <<UserA>>, <<UserB, UserA>> }
    /\ tasks \in { <<>>, <<TaskA>> }
    /\ req = NoRequest
    /\ resp = NoResponse
    /\ loc = NoLocals
    /\ args = NoArgs
    /\ ret = NoReturn

\* the server starts (main.py lifespan) and runs init_database
InitDatabase ==
    /\ req = NoRequest
    /\ \E o \in init_database(users, tasks) :
         /\ users' = o.users
         /\ tasks' = o.tasks
         /\ loc' = [op |-> "init_database", printed |-> o.printed]
    /\ UNCHANGED <<req, resp, args, ret>>

NextSeed ==
    \/ InitDatabase
    \/ DeleteUser \/ ActivateUser \/ SuspendUser \/ DeleteTask
    \/ Reply

SpecSeed == InitSeed /\ [][NextSeed]_vars

----------------------------------------------------------------------------
(* routers/tasks.py: export_tasks, get_task_stats, get_dashboard_data, and *)
(* the server taking the requests of the tasks router while users come and *)
(* go                                                                      *)

\* stands for the text of tasks.py:362, which carries the number of tasks
M_exported == <<"e","x","p","o","r","t","e","d">>
\* stands for the text of tasks.py:434
M_dashboard == <<"d","a","s","h","b","o","a","r","d">>

\* tasks.py:322-324: FastAPI accepts the query parameters (else 422)
ExportParamsValid(r) ==
    /\ r.status.t /= "absent" => r.status.v \in Values(TaskStatus)
    /\ r.label.t /= "absent" => r.label.v \in Values(TaskLabel)
    /\ r.priority.t /= "absent" => r.priority.v \in Values(TaskPriority)

\* tasks.py:330-340: the filtered query
ExportQuery(trows, r) ==
    LET P(t) ==
          /\ Truthy(Get(r.status)) => EnumEq(TaskStatus, t.status, r.status.v)
          /\ Truthy(Get(r.label)) => EnumEq(TaskLabel, t.label, r.label.v)
          /\ Truthy(Get(r.priority)) =>
                 EnumEq(TaskPriority, t.priority, r.priority.v)
    IN  SelectSeq(trows, P)

\* GET /api/tasks/export, tasks.py:320-364
export_tasks(urows, trows, token, r) ==
    LET export_data == MapSeq(TaskResponse, ExportQuery(trows, r))
    IN  IF ~get_current_user(token, urows).ok
        THEN { Outcome(Unauthorized, urows, trows) }
        ELSE IF ~ExportParamsValid(r)
        THEN { Outcome(Unprocessable, urows, trows) }
        ELSE { Outcome([ http |-> 200,
                         body |-> create_response(
                                    PyList(export_data),
                                    [t |-> "fstr", v |-> M_exported,
                                     n |-> Len(export_data)],
                                    Absent, Absent) ],
                       urows, trows) }

\* SELECT col, count(id) ... GROUP BY col: the count of each value stored
CountBy(trows, col) ==
    [ v \in { trows[i][col] : i \in 1..Len(trows) } |->
        Cardinality({ i \in 1..Len(trows) : trows[i][col] = v }) ]

\* tasks.py:374-379: the number of tasks whose status is the member
CountStatus(trows, member) ==
    Cardinality({ i \in 1..Len(trows) :
                    EnumEq(TaskStatus, trows[i].status, member) })

\* GET /api/tasks/stats/summary, tasks.py:367-404
get_task_stats(urows, trows, token, r) ==
    IF ~get_current_user(token, urows).ok
    THEN { Outcome(Unauthorized, urows, trows) }
    ELSE { Outcome([ http |-> 200,
                     body |-> [ total_tasks |-> Len(trows),
                                backlog_tasks |-> CountStatus(trows, T_backlog),
                                todo_tasks |-> CountStatus(trows, T_todo),
                                in_progress_tasks |->
                                    CountStatus(trows, T_in_progress),
                                done_tasks |-> CountStatus(trows, T_done),
                                canceled_tasks |->
                                    CountStatus(trows, T_canceled),
                                tasks_by_priority |-> CountBy(trows, "priority"),
                                tasks_by_label |-> CountBy(trows, "label") ] ],
                   urows, trows) }

\* tasks.py:414: limit(5)
RecentLimit == 5

\* GET /api/tasks/dashboard, tasks.py:407-435
get_dashboard_data(urows, trows, token, r) ==
    IF ~get_current_user(token, urows).ok
    THEN { Outcome(Unauthorized, urows, trows) }
    ELSE { LET recent_tasks ==
                 SubSeq(ordered, 1,
                        IF Len(ordered) < RecentLimit THEN Len(ordered)
                        ELSE RecentLimit)
           IN  Outcome([ http |-> 200,
                         body |-> create_response(
                                    [ t |-> "dict",
                                      v |-> [ recent_tasks |->
                                                MapSeq(TaskResponse,
                                                       recent_tasks),
                                              status_distribution |->
                                                CountBy(trows, "status"),
                                              priority_distribution |->
                                                CountBy(trows, "priority") ] ],
                                    PyStr(M_dashboard), Absent, Absent) ],
                       urows, trows) :
           ordered \in SqlOrderBy(trows, {}, N_createdAt, "desc") }

\* the query strings the model sends to GET /api/tasks/ here
FewTaskRequests ==
    { [ page |-> ps.page, page_size |-> ps.page_size,
        search |-> Absent, status |-> st, label |-> Absent,
        priority |-> Absent, assignee |-> Absent,
        sort_by |-> Absent, sort_order |-> Absent ] :
        ps \in { [page |-> Absent, page_size |-> Absent],
                 [page |-> PyInt(0), page_size |-> PyInt(1)] },
        st \in { Absent, PyStr(T_done) } }

\* the query strings the model sends to GET /api/tasks/export
ExportRequests ==
    { [ status |-> st, label |-> Absent, priority |-> pr ] :
        st \in { Absent, PyStr(T_todo) },
        pr \in { Absent, PyStr(T_bogus) } }

GetTasks ==
    \E token \in CrudTokens, r \in FewTaskRequests :
        Serve([op |-> "get_tasks", params |-> r, token |-> token],
              { Outcome(o.resp, users, tasks) :
                  o \in TaskListing(users, tasks, token, r) })

ExportTasks ==
    \E token \in CrudTokens, r \in ExportRequests :
        Serve([op |-> "export_tasks", params |-> r, token |-> token],
              export_tasks(users, tasks, token, r))

GetTaskStats ==
    \E token \in CrudTokens :
        Serve([op |-> "get_task_stats", params |-> <<>>, token |-> token],
              get_task_stats(users, tasks, token, <<>>))

GetDashboardData ==
    \E token \in CrudTokens :
        Serve([op |-> "get_dashboard_data", params |-> <<>>, token |-> token],
              get_dashboard_data(users, tasks, token, <<>>))

\* the endpoint functions of routers/tasks.py
TasksOps ==
    { "get_tasks", "get_task", "create_task", "update_task", "delete_task",
      "bulk_delete_tasks", "update_task_status", "assign_task",
      "import_tasks", "export_tasks", "get_task_stats", "get_dashboard_data" }

\* the server taking the requests of the tasks router, and the requests of
\* the users router that add, rename and remove users
NextTasks ==
    \/ GetTasks \/ GetTask \/ CreateTask \/ UpdateTask \/ DeleteTask
    \/ BulkDeleteTasks \/ UpdateTaskStatus \/ AssignTask \/ ImportTasks
    \/ ExportTasks \/ GetTaskStats \/ GetDashboardData
    \/ CreateUser \/ UpdateUser \/ DeleteUser
    \/ Reply

SpecTasks == InitCrud /\ [][NextTasks]_vars

----------------------------------------------------------------------------
(* Claims *)

Max(a, b) == IF a > b THEN a ELSE b

ListOk(op) == req.op = op /\ resp.http = 200

\* C1: for a page p >= 1 and a size s with 1 <= s <= max, paginate_query
\* returns the records of R at positions [(p-1)*s, (p-1)*s + s) in their
\* order, min(s, max(0, len(R) - (p-1)*s)) of them, and total = len(R).
C1_PageIsSlice ==
    (ret.called /\ args.page >= 1
       /\ args.page_size >= 1 /\ args.page_size <= MAX_PAGE_SIZE) =>
        LET R     == args.query
            first == (args.page - 1) * args.page_size
            n     == Min(args.page_size, Max(0, Len(R) - first))
            items == ret.result.items
        IN  /\ Len(items) = n
            /\ \A i \in 1..n : items[i] = R[first + i]
            /\ ret.result.total = Len(R)

\* a last page that is not full, and a page beyond the last one
C1_Witness ==
    /\ ret.called
    /\ args.page = 2 /\ args.page_size = 2 /\ Len(args.query) = 3
    /\ ret.result.items = <<3>> /\ ret.result.total = 3

\* the rows of a table that satisfy the WHERE clause of a list request
UserMatchCount ==
    Cardinality({ i \in 1..Len(users) :
                    UserWhere(users[i], UserCriteria(req.params)) })

TaskMatchCount ==
    Cardinality({ i \in 1..Len(tasks) :
                    TaskWhere(tasks[i], TaskCriteria(req.params)) })

\* C2: the total of the paginated envelope of a users or tasks list is the
\* number of records of the whole collection that match the criteria,
\* whatever page and page size were asked for.
C2_TotalIsMatchCount ==
    /\ ListOk("get_users") => resp.body.total = UserMatchCount
    /\ ListOk("get_tasks") => resp.body.total = TaskMatchCount

\* two of three users match and the page holds one of them
C2_Witness ==
    /\ ListOk("get_users")
    /\ Len(users) = 3
    /\ resp.body.total = 2
    /\ Len(resp.body.data) = 1

\* a criterion is active: given and not empty
Given(x) == x.t = "str" /\ x.v /= <<>>

\* C3 as claimed: an exact-match criterion holds only by case-sensitive
\* equality with the record's field value
UserSatisfies(u, c) ==
    /\ UserSearchActive(c.search) => UserSearchMatch(u, c.search)
    /\ Given(c.status) => u.status = c.status.v
    /\ Given(c.role) => u.role = c.role.v
    /\ Given(c.username) => u.username = c.username.v
    /\ Given(c.phoneNumber) => u.phoneNumber = c.phoneNumber.v

TaskSatisfies(t, c) ==
    /\ Given(c.search) => TaskSearchMatch(t, c.search)
    /\ Given(c.status) => t.status = c.status.v
    /\ Given(c.label) => t.label = c.label.v
    /\ Given(c.priority) => t.priority = c.priority.v
    /\ Given(c.assignee) => t.assignee = c.assignee.v

\* C3: the filtered result of a list request is the subsequence of R, in
\* R's order, of the records that satisfy every active criterion at once,
\* an exact-match criterion being satisfied only by case-sensitive equality
\* with the record's field value.
C3_FilterIsExactSubsequence ==
    /\ ListOk("get_users") =>
         loc.query = SelectSeq(users,
                        LAMBDA u : UserSatisfies(u, UserCriteria(req.params)))
    /\ ListOk("get_tasks") =>
         loc.query = SelectSeq(tasks,
                        LAMBDA t : TaskSatisfies(t, TaskCriteria(req.params)))

\* the search term occurs, whatever the case, in one of the fields
OccursIn(fields, term) ==
    \E f \in fields : f /= NULL /\ Contains(Lower(f), Lower(term))

UserSearchable(u) ==
    { u.firstName, u.lastName, u.username, u.email, u.phoneNumber }

TaskSearchable(t) == { t.title, t.description, t.id }

\* C4: for a non-empty search term t a record passes the free-text search
\* if and only if t occurs as a case-insensitive substring of one of the
\* searchable fields, every character of t matched literally.
C4_SearchIsLiteralSubstring ==
    /\ (ListOk("get_users") /\ Given(Get(req.params.search))) =>
         LET c == UserCriteria(req.params)
             rest == [c EXCEPT !.search = Null]
         IN  loc.query =
               SelectSeq(users,
                         LAMBDA u : /\ OccursIn(UserSearchable(u), c.search.v)
                                    /\ UserWhere(u, rest))
    /\ (ListOk("get_tasks") /\ Given(Get(req.params.search))) =>
         LET c == TaskCriteria(req.params)
             rest == [c EXCEPT !.search = Null]
         IN  loc.query =
               SelectSeq(tasks,
                         LAMBDA t : /\ OccursIn(TaskSearchable(t), c.search.v)
                                    /\ TaskWhere(t, rest))

\* absent or empty: missing, null or the empty string
Empty(x) == x.t = "absent" \/ x.t = "null" \/ (x.t = "str" /\ x.v = <<>>)

CriteriaKeys == { "search", "status", "role", "username", "phoneNumber" }

TaskCriteriaKeys == { "search", "status", "label", "priority", "assignee" }

C6_PageBelowOneIsPageOne ==
    (ret.called /\ args.page <= 0) =>
        LET one == paginate_query(args.query, 1, args.page_size, MAX_PAGE_SIZE)
        IN  /\ ret.result.items = one.items
            /\ ret.result.total = one.total

C6_Witness ==
    /\ ret.called
    /\ args.page = 0 /\ args.page_size = 2 /\ Len(args.query) = 3
    /\ ret.result.items = <<1, 2>>

\* C7: for a page size s above the maximum, paginate_query(R, p, s) returns
\* the items and the total of paginate_query(R, p, max), at most max items.
C7_SizeAboveMaxIsMax ==
    (ret.called /\ args.page_size > MAX_PAGE_SIZE) =>
        LET capped == paginate_query(args.query, args.page, MAX_PAGE_SIZE,
                                     MAX_PAGE_SIZE)
        IN  /\ ret.result.items = capped.items
            /\ ret.result.total = capped.total
            /\ Len(ret.result.items) <= MAX_PAGE_SIZE

\* page 2 at size max + 50 over more than 2 * max records: records
\* max + 1 .. 2 * max
C7_Witness ==
    /\ ret.called
    /\ args.page = 2 /\ args.page_size = MAX_PAGE_SIZE + 50
    /\ Len(args.query) > 2 * MAX_PAGE_SIZE
    /\ Len(ret.result.items) = MAX_PAGE_SIZE
    /\ ret.result.items[1] = MAX_PAGE_SIZE + 1

\* C8: for every integer page number and page size, zero and negative sizes
\* included, the values used to cut the slice satisfy page >= 1 and
\* 1 <= page size <= max.
C8_UsedPageSpecInRange ==
    ret.called =>
        /\ ret.result.page >= 1
        /\ ret.result.page_size >= 1
        /\ ret.result.page_size <= MAX_PAGE_SIZE

\* natural ordering of the values of a field
NaturalLeq(col, a, b) == ~KeyLess(col, b, a)

\* s is ordered by column col in direction dir
OrderedBy(s, col, dir) ==
    \A i, j \in 1..Len(s) :
        i < j => IF dir = "desc"
                 THEN NaturalLeq(col, Field(s[j], col), Field(s[i], col))
                 ELSE NaturalLeq(col, Field(s[i], col), Field(s[j], col))

\* the sort field and direction a list request asks for
AskedSortBy(default) == GetDefault(req.params.sort_by, default)

AskedDirection ==
    IF Lower(GetDefault(req.params.sort_order, PyStr(N_desc)).v) = N_desc
    THEN "desc" ELSE "asc"

SameRows(a, b) ==
    /\ Len(a) = Len(b)
    /\ \A x \in { a[i] : i \in 1..Len(a) } \cup { b[i] : i \in 1..Len(b) } :
         Cardinality({ i \in 1..Len(a) : a[i] = x })
           = Cardinality({ i \in 1..Len(b) : b[i] = x })

\* the request was accepted: authenticated and its parameters valid
Accepted == resp.http /= 401 /\ resp.http /= 422

\* C9: for both list endpoints, when the sort field exists on the schema the
\* items are ordered by it in the requested direction before the page is cut.
C9_SortedBeforeCut ==
    /\ (req.op = "get_users"
          /\ IsStr(AskedSortBy(PyStr(N_createdAt)))
          /\ AskedSortBy(PyStr(N_createdAt)).v \in UserColumns) =>
         /\ resp.http = 200
         /\ SameRows(loc.ordered, loc.query)
         /\ OrderedBy(loc.ordered, AskedSortBy(PyStr(N_createdAt)).v,
                      AskedDirection)
         /\ resp.body.data = MapSeq(UserResponse, loc.paginate.items)
         /\ loc.paginate.items =
              QuerySlice(loc.ordered, loc.paginate.offset,
                         loc.paginate.page_size)
    /\ (req.op = "get_tasks" /\ Accepted
          /\ IsStr(AskedSortBy(PyStr(N_createdAt)))
          /\ AskedSortBy(PyStr(N_createdAt)).v \in TaskColumns) =>
         /\ resp.http = 200
         /\ SameRows(loc.ordered, loc.query)
         /\ OrderedBy(loc.ordered, AskedSortBy(PyStr(N_createdAt)).v,
                      AskedDirection)
         /\ resp.body.data = MapSeq(TaskResponse, loc.paginate.items)

\* C10: for a sort field name that is no field of the schema the resolver
\* gives no comparator, the result keeps the order of the collection, and
\* no error is raised.
C10_UnknownSortFieldIsNoOrder ==
    /\ (req.op = "get_users"
          /\ Given(AskedSortBy(PyStr(N_createdAt)))
          /\ AskedSortBy(PyStr(N_createdAt)).v \notin UserColumns) =>
         /\ resp.http = 200
         /\ loc.order_by.kind = "none"
         /\ loc.ordered = loc.query
    /\ (req.op = "get_tasks" /\ Accepted
          /\ Given(AskedSortBy(PyStr(N_createdAt)))
          /\ AskedSortBy(PyStr(N_createdAt)).v \notin TaskColumns) =>
         /\ resp.http = 200
         /\ loc.order_by.kind = "none"
         /\ loc.ordered = loc.query

\* two texts are equal when the case of their letters is ignored
SameLetter(x, y) ==
    \/ x = y
    \/ \E k \in 1..Len(UpperChars) :
          {x, y} = {UpperChars[k], LowerChars[k]}

EqIgnoreCase(a, b) ==
    /\ Len(a) = Len(b)
    /\ \A i \in 1..Len(a) : SameLetter(a[i], b[i])

\* the direction string of a list request (absent: the default "desc")
AskedSortOrder == GetDefault(req.params.sort_order, PyStr(N_desc))

\* the request names a sort field of the schema and a direction string
SortsByFieldOf(op, columns) ==
    /\ req.op = op
    /\ IsStr(AskedSortBy(PyStr(N_createdAt)))
    /\ AskedSortBy(PyStr(N_createdAt)).v \in columns
    /\ IsStr(AskedSortOrder)

\* what C11 says build_order_by yields for the direction
ClaimedDirection ==
    IF EqIgnoreCase(AskedSortOrder.v, N_desc) THEN "desc" ELSE "asc"

\* C11: for a known sort field build_order_by yields descending order exactly
\* when the direction string is "desc" whatever its case, ascending order
\* for every other string, and rejects none; the users list is ordered so.
C11_DescIffDirectionIsDesc ==
    /\ SortsByFieldOf("get_users", UserColumns) =>
         LET ob == build_order_by(UserColumns, AskedSortBy(PyStr(N_createdAt)),
                                  AskedSortOrder)
         IN  /\ ob.kind = ClaimedDirection
             /\ ob.column = AskedSortBy(PyStr(N_createdAt)).v
             /\ resp.http = 200
             /\ loc.order_by = ob
             /\ OrderedBy(loc.ordered, ob.column, ClaimedDirection)
    /\ SortsByFieldOf("get_tasks", TaskColumns) =>
         LET ob == build_order_by(TaskColumns, AskedSortBy(PyStr(N_createdAt)),
                                  AskedSortOrder)
         IN  /\ ob.kind = ClaimedDirection
             /\ ob.column = AskedSortBy(PyStr(N_createdAt)).v

\* "DESC" orders two users by username, the greater first
C11_Witness ==
    /\ ListOk("get_users")
    /\ req.params.sort_by = PyStr(N_username)
    /\ req.params.sort_order = PyStr(N_DESC)
    /\ loc.order_by.kind = "desc"
    /\ Len(resp.body.data) >= 2
    /\ TextLess(resp.body.data[2].username, resp.body.data[1].username)

PageCount(total, s) == (total + s - 1) \div s

IdsOf(rows) == { rows[i].id : i \in 1..Len(rows) }

\* the responses a users list request for page p can get, the rest of the
\* request and the collection being those of the request just served
UserPage(p) ==
    { o.resp : o \in UserListing(users, [req.params EXCEPT !.page = PyInt(p)]) }

TaskPage(p) ==
    { o.resp : o \in TaskListing(users, tasks, req.token,
                                 [req.params EXCEPT !.page = PyInt(p)]) }

\* the response is page p of size s of total records, all of them among ids
IsPageOf(a, p, s, total, ids) ==
    /\ a.http = 200
    /\ Len(a.body.data) = Min(s, total - (p - 1) * s)
    /\ IdsOf(a.body.data) \subseteq ids
    /\ Cardinality(IdsOf(a.body.data)) = Len(a.body.data)

\* C13: for a fixed collection, criteria, sort spec and page size s, the
\* pages 1 .. ceil(total/s) of successive list requests are pairwise
\* disjoint and together hold every matching record exactly once.
C13_PagesPartitionMatches ==
    /\ req.op = "get_users" =>
         LET s == Min(UserPageSpec(PyInt(1),
                                   GetDefault(req.params.page_size,
                                              PyInt(DEFAULT_PAGE_SIZE))).page_size,
                      MAX_PAGE_SIZE)
             match == UserQuery(users, req.params)
             n == PageCount(Len(match), s)
         IN  s >= 1 =>
               /\ \A p \in 1..n : \A a \in UserPage(p) :
                     IsPageOf(a, p, s, Len(match), IdsOf(match))
               /\ \A p, q \in 1..n : p < q =>
                     \A a \in UserPage(p), b \in UserPage(q) :
                       IdsOf(a.body.data) \cap IdsOf(b.body.data) = {}
    /\ (req.op = "get_tasks" /\ Accepted) =>
         LET s == IntOf(GetDefault(req.params.page_size,
                                   PyInt(DEFAULT_PAGE_SIZE)))
             match == TaskQuery(tasks, req.params)
             n == PageCount(Len(match), s)
         IN  /\ \A p \in 1..n : \A a \in TaskPage(p) :
                   IsPageOf(a, p, s, Len(match), IdsOf(match))
             /\ \A p, q \in 1..n : p < q =>
                   \A a \in TaskPage(p), b \in TaskPage(q) :
                     IdsOf(a.body.data) \cap IdsOf(b.body.data) = {}

\* the value an envelope holds for a keyword argument
Supplied(x, default) == IF x = Absent THEN default ELSE x

\* C14: create_response returns exactly {code, message, success} when the
\* payload is absent (None) and exactly {code, message, success, data} when
\* a payload is given, an empty one included; message, code and success are
\* the supplied values or the defaults "success", 200 and true.
C14_EnvelopeOmitsAbsentPayload ==
    (ret.called /\ args.fn = "create_response") =>
        LET e == ret.result
        IN  /\ DOMAIN e =
                  IF args.data \in {Absent, Null}
                  THEN {"code", "message", "success"}
                  ELSE {"code", "message", "success", "data"}
            /\ args.data \notin {Absent, Null} => e.data = args.data
            /\ e.message = Supplied(args.message, PyStr(M_success))
            /\ e.code = Supplied(args.code, PyInt(200))
            /\ e.success = Supplied(args.success, PyBool(TRUE))

\* an empty list is a payload: the envelope carries it
C14_Witness ==
    /\ ret.called /\ args.fn = "create_response"
    /\ args.data = PyList(<<>>)
    /\ args.message = Absent /\ args.code = Absent /\ args.success = Absent
    /\ ret.result = [ code |-> PyInt(200), message |-> PyStr(M_success),
                      success |-> PyBool(TRUE), data |-> PyList(<<>>) ]

\* C15: create_paginated_response always returns the keys code, message,
\* success, data, total, page and pageSize with the supplied values (defaults
\* "success", 200, true), also for an empty item list; for items=[], total=0,
\* page=1, page_size=10 it is {code: 200, message: "success", success: true,
\* data: [], total: 0, page: 1, pageSize: 10}.
C15_PaginatedEnvelopeIsComplete ==
    (ret.called /\ args.fn = "create_paginated_response") =>
        LET e == ret.result
        IN  /\ DOMAIN e = { "code", "message", "success", "data", "total",
                            "page", "pageSize" }
            /\ e.data = args.items
            /\ e.total = args.total
            /\ e.page = args.page
            /\ e.pageSize = args.page_size
            /\ e.message = Supplied(args.message, PyStr(M_success))
            /\ e.code = Supplied(args.code, PyInt(200))
            /\ e.success = Supplied(args.success, PyBool(TRUE))
            /\ ( args.items = <<>> /\ args.total = 0 /\ args.page = 1
                   /\ args.page_size = 10 /\ args.message = Absent
                   /\ args.code = Absent /\ args.success = Absent ) =>
                 e = [ code |-> PyInt(200), message |-> PyStr(M_success),
                       success |-> PyBool(TRUE), data |-> <<>>, total |-> 0,
                       page |-> 1, pageSize |-> 10 ]

\* the spec's scenario, and an empty list beside a total that is not zero
C15_Witness ==
    /\ ret.called /\ args.fn = "create_paginated_response"
    /\ args.items = <<>> /\ args.total = 0 /\ args.page = 1
    /\ args.page_size = 10 /\ args.message = Absent
    /\ args.code = Absent /\ args.success = Absent
    /\ ret.result.data = <<>> /\ ret.result.pageSize = 10

\* C16: for every sort field name, direction, page, page size and set of
\* criteria, the filter, order and paginate steps of a users or tasks list
\* request raise no exception: the request of an authenticated caller is
\* answered with a page.
C16_ListNeverRaises ==
    (req.op \in {"get_users", "get_tasks"} /\ resp.http /= 401) =>
        /\ resp.http = 200
        /\ ~loc.raised

\* C17: a list request on users or tasks leaves both tables as they were: no
\* row is created, deleted or modified and the stored order is kept.
C17_ListLeavesStoreUnchanged ==
    [][ (req = NoRequest /\ req'.op \in {"get_users", "get_tasks"}) =>
          (users' = users /\ tasks' = tasks) ]_vars

\* a users list that filtered and reordered what it returned
C17_Witness ==
    /\ ListOk("get_users")
    /\ Len(users) = 3
    /\ Len(loc.query) = 2
    /\ loc.ordered /= loc.query
    /\ Len(resp.body.data) = 2

\* the ids of the rows of a table are pairwise different
IdsUnique(rows) ==
    \A i, j \in 1..Len(rows) : rows[i].id = rows[j].id => i = j

\* every row has the id it was inserted with
IdsAsBorn(rows) == \A i \in 1..Len(rows) : rows[i].id = rows[i].born

\* C19: after any sequence of create, update, invite, import and delete
\* requests every user and every task has an id that no other record of its
\* table has, and it is the id the record was created with.
C19_IdsUniqueAndStable ==
    /\ IdsUnique(users) /\ IdsAsBorn(users)
    /\ IdsUnique(tasks) /\ IdsAsBorn(tasks)

\* the operations that address one record by its id
ByIdOps ==
    { "get_user", "update_user", "delete_user", "activate_user",
      "suspend_user", "get_task", "update_task", "delete_task",
      "update_task_status", "assign_task" }

\* the id a by-id request asks for
AskedId(request) ==
    IF "task_id" \in DOMAIN request.params
    THEN request.params.task_id ELSE request.params.user_id

\* the by-id request is served and no record of its table has the id asked
\* for; a tasks request comes from a signed-in caller and has a status that
\* is a task status
AsksMissingRecord ==
    /\ req = NoRequest
    /\ req'.op \in ByIdOps
    /\ IF "task_id" \in DOMAIN req'.params
       THEN /\ Matching(tasks, AskedId(req')) = {}
            /\ get_current_user(req'.token, users).ok
            /\ "status" \in DOMAIN req'.params
                 => req'.params.status.v \in Values(TaskStatus)
       ELSE Matching(users, Get(AskedId(req'))) = {}

\* C20: a request that addresses one record by its id (get, update, delete,
\* task status update, task assign, user activate, user suspend) when no
\* record has that id is answered 404, and the tables are as they were.
C20_MissingIdIs404 ==
    [][ AsksMissingRecord
          => (resp'.http = 404 /\ users' = users /\ tasks' = tasks) ]_vars

\* the list request of client c is answered with a page
ListServed(c) ==
    /\ req[c] /= NoRequest
    /\ req[c].op \in ListOps
    /\ loc[c].pc = "done"
    /\ ~loc[c].raised

\* C18: with list, create, update and delete requests of several clients in
\* flight, the total of every list response is the number of matching
\* records of the state its items were taken from.
C18_TotalAndItemsFromOneState ==
    \A c \in Clients :
        ListServed(c) => resp[c].body.total = Matches(req[c], loc[c].from)

\* the list request of one client is answered with the first of two
\* matching records, and before the client has the response the delete
\* request of another client has changed the table
C18_Witness ==
    \E c, d \in Clients :
        /\ ListServed(c)
        /\ resp[c].body.total = 2
        /\ Len(resp[c].body.data) = 1
        /\ loc[d].pc = "done"
        /\ req[d].op \in { "delete_user", "delete_task" }
        /\ resp[d].http = 200
        /\ Collection(req[c], users, tasks) /= loc[c].from

\* no two users have the same username, no two the same email
NamesUnique(rows) ==
    \A i, j \in 1..Len(rows) :
        i /= j => /\ rows[i].username /= rows[j].username
                  /\ rows[i].email /= rows[j].email

\* user k has the text x in column f
HeldBy(rows, k, f, x) == IsStr(x) /\ rows[k][f] = x.v

\* the create or update request would give a user a username or an email
\* that another user has
WouldDuplicate(request, rows) ==
    LET d == request.params.user_data
        target == IF request.op = "update_user"
                  THEN Matching(rows, Get(request.params.user_id)) ELSE {}
    IN  /\ request.op \in { "create_user", "update_user" }
        /\ request.op = "update_user" => target /= {}
        /\ \E f \in { "username", "email" } \cap DOMAIN d :
             \E k \in (1..Len(rows)) \ target : HeldBy(rows, k, f, d[f])

\* C21: after any sequence of create_user, update_user, invite_users and
\* delete requests no two users have the same username and no two the same
\* email, and a create or update request that would give a user a username
\* or an email that another user has is answered 400 and leaves the users
\* as they were.
C21_DuplicateNamesRejected ==
    [][ /\ NamesUnique(users')
        /\ (req = NoRequest /\ WouldDuplicate(req', users))
             => (resp'.http = 400 /\ users' = users) ]_vars

\* the table a bulk delete removes rows from
BulkTable(request, urows, trows) ==
    IF request.op = "bulk_delete_users" THEN urows ELSE trows

\* the ids of the request that no row of the table has, in request order
IdsWithoutRecord(request, rows) ==
    LET absent == SelectSeq(request.params.ids,
                            LAMBDA x : Matching(rows, x) = {})
    IN  [k \in 1..Len(absent) |-> absent[k].v]

\* C23: a bulk delete of users or of tasks over any list of ids, repeated
\* ids included, reports deleted_count + failed_count = the number of ids
\* of the request, failed_ids = the ids of the request that no record had,
\* and deleted_count = the number of records that left the table.
C23_BulkDeleteCounts ==
    [][ ( /\ req = NoRequest
          /\ req'.op \in { "bulk_delete_users", "bulk_delete_tasks" }
          /\ resp'.http = 200 )
        => LET before == BulkTable(req', users, tasks)
               after  == BulkTable(req', users', tasks')
           IN  /\ resp'.body.deleted_count + resp'.body.failed_count
                    = Len(req'.params.ids)
               /\ resp'.body.failed_ids = IdsWithoutRecord(req', before)
               /\ resp'.body.deleted_count = Len(before) - Len(after) ]_vars

\* the user a task is assigned to exists
AssigneeExists(task, urows) ==
    task.assignee = NULL \/ \E k \in 1..Len(urows) : urows[k].id = task.assignee

\* the assignee a create, update or assign request names
NamedAssignee(request) ==
    CASE request.op = "assign_task" -> request.params.assignee_id
      [] request.op \in { "create_task", "update_task" } ->
            DictGet(request.params.task_data, "assignee")
      [] OTHER -> Null

\* C26: after any sequence of task create, update, assign and import
\* requests and user delete and bulk delete requests every task that has an
\* assignee has the id of a user that exists; a task create, update or
\* assign that names an assignee no user has leaves the tasks as they were,
\* and an import stores no task with such an assignee.
C26_AssigneeExists ==
    [][ /\ \A k \in 1..Len(tasks') : AssigneeExists(tasks'[k], users')
        /\ ( /\ req = NoRequest
             /\ Truthy(NamedAssignee(req'))
             /\ Matching(users, NamedAssignee(req')) = {} )
             => tasks' = tasks
        /\ (req = NoRequest /\ req'.op = "import_tasks")
             => \A k \in (Len(tasks) + 1)..Len(tasks') :
                    AssigneeExists(tasks'[k], users) ]_vars

\* the invite request carries a role that is no role of UserRole, whatever
\* the case of its letters
CarriesInvalidRole(request) ==
    /\ request.op = "invite_users"
    /\ Truthy(request.params.role)
    /\ ~RoleOf(request.params.role).ok

\* C24: an invite request with a role that is not one of superadmin, admin,
\* manager, cashier (compared without regard to case) is answered 400, and
\* no user is created or modified.
C24_InvalidRoleIs400 ==
    [][ (req = NoRequest /\ CarriesInvalidRole(req'))
          => (resp'.http = 400 /\ users' = users) ]_vars

\* the users that have the email of the invite request
InvitedAgain(request, rows) ==
    IF request.op = "invite_users" /\ IsStr(request.params.email)
    THEN { k \in 1..Len(rows) : rows[k].email = request.params.email.v }
    ELSE {}

\* the tables differ in the role of user k at most
OnlyRoleOf(k, before, after) ==
    /\ Len(after) = Len(before)
    /\ \A i \in 1..Len(before) :
         IF i = k THEN [after[i] EXCEPT !.role = before[i].role] = before[i]
         ELSE after[i] = before[i]

C27_ExportAndDashboardReachable ==
    (ret.called /\ args.method = "GET")
      => /\ args.path = <<"export">> => ret.result = "export_tasks"
         /\ args.path = <<"dashboard">> => ret.result = "get_dashboard_data"

\* the step is a run of init_database
RunsInitDatabase ==
    req = NoRequest /\ req' = NoRequest /\ loc'.op = "init_database"

\* C29: init_database creates the sample users and tasks only when there is
\* no user: run on a store with a user it changes nothing, so a second run
\* right after a first changes nothing, and a run that succeeds on an empty
\* store leaves 6 users and 10 tasks.
C29_InitDatabaseIdempotent ==
    [][ RunsInitDatabase
        => /\ users /= <<>> => (users' = users /\ tasks' = tasks)
           /\ (users = <<>> /\ tasks = <<>> /\ loc'.printed = "done")
                => (Len(users') = 6 /\ Len(tasks') = 10)
           /\ \A o \in init_database(users', tasks') :
                 o.users = users' /\ o.tasks = tasks' ]_vars

\* init_database has run on the store a successful run left, and skipped
C29_Witness ==
    /\ loc.op = "init_database"
    /\ loc.printed = "skipped"
    /\ Len(users) = 6
    /\ Len(tasks) = 10

\* C22: the page and pageSize of the envelope of a users or tasks list
\* response are the page number and the page size the items were cut with
\* (the values after clamping).
C22_ReportedPageIsUsedPage ==
    \A op \in { "get_users", "get_tasks" } :
        ListOk(op) => /\ resp.body.page = loc.paginate.page
                      /\ resp.body.pageSize = loc.paginate.page_size

\* the token is one get_current_user is to accept over the rows: the
\* development token while there is a user, or a token jwt.decode accepts
\* whose subject is the username of a user there is
Acceptable(token, rows) ==
    \/ token.kind = "mock" /\ Len(rows) >= 1
    \/ /\ token.kind = "jwt"
       /\ token.valid
       /\ \E i \in 1..Len(rows) : rows[i].username = token.sub

====
